---- MODULE Spec2Model ----
(***************************************************************************)
(* Model of the resource manager of robot/impl/resource_manager.go: the    *)
(* resource graph it drives, the marking operations (updateResources,      *)
(* markRemoved, removeMarkedAndClose, Close), the remote refresh, and the  *)
(* level-parallel completeConfig with its per-resource worker goroutines,  *)
(* per-resource timeout and outer-context cancellation.                    *)
(*                                                                         *)
(* The resource.Graph / resource.GraphNode types and localRobot are not    *)
(* part of the sources at hand; their operations are modelled from the     *)
(* specification (sections 3, 4.1, 4.3) and the way resource_manager.go    *)
(* and its tests use them.                                                 *)
(***************************************************************************)
EXTENDS Integers, Sequences, FiniteSets, TLC

\* ------------------------------------------------------------------ bounds
\* Number of configuration changes (updateResources, markRemoved, Close,
\* remote refresh) in one run; each may be followed by one completeConfig
\* pass and by removeMarkedAndClose.
MaxOps == 2

\* Number of times a resource's timeout elapses or the context of a pass is
\* cancelled in one run.
MaxFaults == 1

\* ------------------------------------------------------------------- names
\* Two local components, one remote machine node and the one resource the
\* peer of that remote may advertise (its name carries the remote prefix).
Locals == {"a", "b"}
RemoteName == "r"
ForeignName == "rx"
\* The same short name one remote further away: the peer's own remote has a
\* resource of that name too.
DeepForeignName == "rsx"
\* The shell service, which an untrusted environment does not allow.
ShellName == "sh"
\* The services of the rdk-internal namespace the host adds at start-up: the
\* web service (web.InternalServiceName) and one other internal service.
WebName == "web"
InternalName == "fs"
Internals == {WebName, InternalName}
Names == Locals \cup {RemoteName, ForeignName, DeepForeignName, ShellName} \cup Internals

\* The order in which a level's names are walked.
Ord(n) == CASE n = "a" -> 1 [] n = "b" -> 2 [] n = "r" -> 3 [] n = "rx" -> 4
            [] n = "rsx" -> 5 [] n = "sh" -> 6 [] n = "fs" -> 7 [] OTHER -> 8

ContainsRemoteNames(n) == n \in {ForeignName, DeepForeignName}
IsRemoteAPI(n) == n = RemoteName
IsInternalNamespace(n) == n \in Internals
IsShellAPI(n) == n = ShellName
IsComponentOrService(n) == n # RemoteName

\* The module manager's Provides / IsModularResource: which resources are
\* served by a module (by name, as the test double does).
\* A module manager that provides every resource.
ProvidesAll(n) == TRUE

IsModular(n) == n = "b"

Models == {"m1", "m2"}
unknownModel == "unknown"
builtinModel == "builtin"

NoErr == "none"
errNotInitialized == "not_initialized"
errPendingRemoval == "pending_removal"

\* ------------------------------------------------------------------- state
VARIABLES
    g,          \* the graph's nodes: name -> node record (present or not)
    edges,      \* dependency edges <<child, parent>>
    closes,     \* built object -> number of Close calls it received
    ops,        \* configuration changes performed so far
    dirty,      \* a configuration change has not been followed by a pass yet
    faults,     \* timeouts and cancellations so far
    alreadyClosed, \* names the host closed right after markRemoved
    pc,         \* completeConfig's position: idle, launch, syncwait, wait
    levels,     \* the topological levels of the running pass
    lvl,        \* index of the level being processed
    todo,       \* names of the level not yet walked by the launch loop
    forceSync,  \* the pass's forceSync argument
    cancelled,  \* the pass's context is done
    tasks,      \* processResource invocations and their worker goroutines
    hist,       \* observations of the running pass (ghost)
    untrustedEnv, \* the manager's untrustedEnv option
    ret,        \* what the last operation returned to its caller
    bridge,     \* the module manager: the resources it serves, whether it is closed
    idem        \* the last diff applied, and what its application did (ghost)

\* The part of the state the operations report into.
aux == <<untrustedEnv, ret, bridge, idem>>

vars == <<g, edges, closes, ops, dirty, faults, alreadyClosed, pc, levels, lvl, todo,
          forceSync, cancelled, tasks, hist, untrustedEnv, ret, bridge, idem>>

NoRet == [op |-> "none", errs |-> {}]
NoBridge == [state |-> {}, trace |-> <<>>, closed |-> FALSE, closedWith |-> {},
             removes |-> [n \in Names |-> 0]]
NoIdem == [diff |-> <<>>, second |-> FALSE, calls |-> 0, snap |-> <<>>,
           rev |-> [n \in Names |-> 0], pending |-> [n \in Names |-> 0],
           before |-> <<>>, ctor |-> [n \in Names |-> 0], must |-> {},
           add |-> [n \in Names |-> 0], reconf |-> [n \in Names |-> 0]]

\* No pass of completeConfig is running or has just ended.
NoPass == [phase |-> "none", started |-> {}, timedOut |-> {},
           abort |-> FALSE, clean |-> FALSE]

\* The locals of a finished pass are gone once another operation runs.
PassForgotten ==
    /\ hist' = NoPass
    /\ levels' = <<>>
    /\ lvl' = 0
    /\ todo' = {}
    /\ forceSync' = FALSE
    /\ cancelled' = FALSE
    /\ UNCHANGED pc

\* A configuration change: the host will run a pass after it.
Changed == ops' = ops + 1 /\ dirty' = TRUE /\ UNCHANGED faults

\* ------------------------------------------------------------ graph nodes
AbsentNode == [present |-> FALSE, cur |-> 0, curModel |-> "none",
               cfgModel |-> "none", deps |-> {}, needsReconf |-> FALSE,
               lastErr |-> NoErr, marked |-> FALSE, unreach |-> FALSE]

\* resource.NewUnconfiguredGraphNode(conf, deps)
NewUnconfiguredGraphNode(model, deps) ==
    [present |-> TRUE, cur |-> 0, curModel |-> "none", cfgModel |-> model,
     deps |-> deps, needsReconf |-> TRUE, lastErr |-> NoErr,
     marked |-> FALSE, unreach |-> FALSE]

\* A node that is added without its object.
NewPlaceholderNode(res, model) ==
    [present |-> TRUE, cur |-> 0, curModel |-> model, cfgModel |-> "none",
     deps |-> {}, needsReconf |-> FALSE, lastErr |-> NoErr,
     marked |-> FALSE, unreach |-> FALSE]

\* resource.NewConfiguredGraphNode(conf, res, model)
NewConfiguredGraphNode(res, model) ==
    [present |-> TRUE, cur |-> res, curModel |-> model, cfgModel |-> "none",
     deps |-> {}, needsReconf |-> FALSE, lastErr |-> NoErr,
     marked |-> FALSE, unreach |-> FALSE]

\* A node that never counts as holding an object.
NeverInitialized(nd) == TRUE

IsUninitialized(nd) == nd.cur = 0
NeedsReconfigure(nd) == nd.present /\ ~nd.marked /\ nd.needsReconf

\* GraphNode.Resource: the error, or NoErr when the object is handed out.
ResourceErr(nd) ==
    IF nd.marked THEN errPendingRemoval
    ELSE IF nd.lastErr # NoErr THEN nd.lastErr
    ELSE IF nd.cur = 0 THEN errNotInitialized
    ELSE NoErr

\* GraphNode.SetNewConfig(conf, deps)
SetNewConfig(nd, model, deps) ==
    [nd EXCEPT !.cfgModel = model, !.deps = deps, !.needsReconf = TRUE,
               !.marked = FALSE]

\* GraphNode.SetNeedsUpdate: no new config; a node marked for removal stays so.
SetNeedsUpdate(nd) ==
    IF nd.marked THEN nd ELSE [nd EXCEPT !.needsReconf = TRUE]

\* GraphNode.SwapResource(res, model)
SwapResource(nd, res, model) ==
    [nd EXCEPT !.cur = res, !.curModel = model, !.needsReconf = FALSE,
               !.lastErr = NoErr, !.marked = FALSE, !.unreach = FALSE]

\* GraphNode.UnsetResource
UnsetResource(nd) == [nd EXCEPT !.cur = 0]

\* GraphNode.LogAndSetLastError(err)
LogAndSetLastError(nd, err) == [nd EXCEPT !.lastErr = err]

\* GraphNode.MarkForRemoval
MarkNode(nd) == [nd EXCEPT !.marked = TRUE]

\* ------------------------------------------------------------------ graph
Present(gr) == {n \in Names : gr[n].present}

Parents(E, n) == {p \in Names : <<n, p>> \in E}
Children(E, n) == {c \in Names : <<c, n>> \in E}

\* Every name that depends, directly or not, on a name of S.
RECURSIVE DescendantsOf(_, _)
DescendantsOf(E, S) ==
    LET more == {c \in Names : \E p \in S : <<c, p>> \in E} \ S
    IN  IF more = {} THEN S ELSE DescendantsOf(E, S \cup more)

\* Graph.SubGraphFrom(root): root and everything depending on it.
SubGraphFrom(E, n) == DescendantsOf(E, {n})

\* Graph.GetAllChildrenOf(n): direct dependents.
GetAllChildrenOf(E, n) == Children(E, n)

HasCycle(E) == \E n \in Names : n \in DescendantsOf(E, Children(E, n))

\* A graph that takes any edge.
AnyChildOk(E, c, p) == TRUE

\* Graph.AddChild(child, parent): the edge, unless it closes a cycle.
AddChildOk(E, c, p) == c # p /\ p \notin SubGraphFrom(E, c)
AddChild(E, c, p) == IF AddChildOk(E, c, p) THEN E \cup {<<c, p>>} ELSE E

\* Graph.remove(name): the node and its edges leave the graph.
RemoveEdgesOf(E, S) == {e \in E : e[1] \notin S /\ e[2] \notin S}

\* A sort that puts every name into one level.
OneLevel(E, rem, placed) == IF rem = {} THEN <<>> ELSE <<rem>>

\* Graph.ReverseTopologicalSortInLevels: level 0 has no parents; a level
\* only depends on earlier levels.
RECURSIVE SortInLevels(_, _, _)
SortInLevels(E, rem, placed) ==
    LET lv == {n \in rem : Parents(E, n) \subseteq placed}
    IN  IF lv = {} THEN <<>>
        ELSE <<lv>> \o SortInLevels(E, rem \ lv, placed \cup lv)

ReverseTopologicalSortInLevels(gr, E) == SortInLevels(E, Present(gr), {})

\* --------------------------------------------------------------- objects
NewObj == Len(closes) + 1
\* One more Close call on an object (a third and later call is not told from
\* the second).
Closed(k) == IF k >= 2 THEN 2 ELSE k + 1

\* Close every object of the set once more.
CloseObjs(cl, objs) ==
    [o \in DOMAIN cl |-> IF o \in objs THEN Closed(cl[o]) ELSE cl[o]]

\* GraphNode.Close on each node of S: the held object is closed and unset.
NodesClose(gr, S) ==
    IF S = {} THEN gr
    ELSE [n \in Names |-> IF n \in S THEN UnsetResource(gr[n]) ELSE gr[n]]
\* Nodes that hand no object to whoever closes them.
HoldsNothing(gr, S) == {}

HeldBy(gr, S) == {gr[n].cur : n \in S} \ {0}

\* closeAndUnsetResource(gNode): Resource() must hand the object out.
CanCloseAndUnset(nd) == ResourceErr(nd) = NoErr
CloseAndUnsetNode(nd) == IF CanCloseAndUnset(nd) THEN UnsetResource(nd) ELSE nd
\* A rebuild that leaves the old object open.
CloseNothing(nd) == {}

CloseAndUnsetObjs(nd) == IF CanCloseAndUnset(nd) THEN {nd.cur} ELSE {}

\* markChildrenForUpdate(rName): every local dependent needs an update.
ChildrenToUpdate(gr, E, n) ==
    IF gr[n].present
    THEN {c \in SubGraphFrom(E, n) \ {n} : ~ContainsRemoteNames(c) /\ gr[c].present}
    ELSE {}
\* A worker that tells no dependent.
NoMarking(gr, E, n) == gr

MarkChildrenForUpdate(gr, E, n) ==
    LET cs == ChildrenToUpdate(gr, E, n)
    IN  IF cs = {} THEN gr
        ELSE [c \in Names |-> IF c \in cs THEN SetNeedsUpdate(gr[c]) ELSE gr[c]]

\* A marking that also drops the objects of the nodes it marks.
MarkAndForget(gr, E, n, reachable) ==
    [c \in Names |-> IF c \in SubGraphFrom(E, n) \ {n} /\ gr[c].present
                     THEN [gr[c] EXCEPT !.unreach = ~reachable, !.cur = 0]
                     ELSE gr[c]]

\* Graph.MarkReachability(name, reachable): along the descendants.
MarkReachability(gr, E, n, reachable) ==
    LET cs == {c \in SubGraphFrom(E, n) \ {n} : gr[c].present}
    IN  IF cs = {} THEN gr
        ELSE [c \in Names |-> IF c \in cs THEN [gr[c] EXCEPT !.unreach = ~reachable]
                              ELSE gr[c]]

\* ------------------------------------------------------- updateResources
\* A diff: for each configurable name, its new config or none.
Configurable == Locals \cup {RemoteName, ShellName}
DepChoices(n) ==
    CASE n = "a" -> {{}, {"b"}}
      [] n = "b" -> {{}, {"a"}, {ForeignName}}
      [] OTHER   -> {{}}
ConfModels(n) ==
    CASE n = "a" -> Models
      [] n = "b" -> {"m1"}
      [] OTHER   -> {builtinModel}
Confs(n) == [model : ConfModels(n), deps : DepChoices(n)]
NoConf == [model |-> "none", deps |-> {}]
Diffs == [a : Confs("a") \cup {NoConf}, b : Confs("b") \cup {NoConf},
          r : Confs(RemoteName) \cup {NoConf}]
LocalDiffs == {d \in Diffs : d.r = NoConf}
Modified(d) == {n \in Configurable \cap DOMAIN d : d[n] # NoConf}

\* A manager that lets the shell service through.
NeverDisabled(n) == FALSE

\* The shell service is left alone in an untrusted environment.
ShellDisabled(n) == untrustedEnv /\ IsShellAPI(n)

\* The names of the diff that markResourceForUpdate is called for.
ToMark(d) == {n \in Modified(d) : ~ShellDisabled(n)}

\* markResourceForUpdate(name, conf, deps, revision): the node after it.
MarkResourceForUpdateNode(nd, conf) ==
    IF nd.present THEN SetNewConfig(nd, conf.model, conf.deps)
    ELSE NewUnconfiguredGraphNode(conf.model, conf.deps)

\* markResourceForUpdate resets the parentage of an existing node.
MarkResourceForUpdateEdges(gr, E, D) ==
    {e \in E : ~(e[1] \in D /\ gr[e[1]].present)}

UpdateResources(d) ==
    /\ pc = "idle"
    /\ ops < MaxOps
    /\ Modified(d) # {}
    /\ g' = [n \in Names |-> IF n \in ToMark(d)
                             THEN MarkResourceForUpdateNode(g[n], d[n])
                             ELSE g[n]]
    /\ edges' = MarkResourceForUpdateEdges(g, edges, ToMark(d))
    /\ Changed
    /\ PassForgotten
    /\ UNCHANGED <<closes, alreadyClosed, tasks>>

\* ------------------------------------------------------------ markRemoved
\* markResourcesRemoved(rNames, addNames, withDependents = true): the listed
\* nodes and everything depending on them are marked.
MarkedByRemoval(gr, E, S) ==
    UNION {SubGraphFrom(E, n) : n \in {m \in S : gr[m].present}}

\* markRemoved(conf), and the host closing the resources it returns
\* (resourcesToCloseBeforeComplete) right away.
MarkRemoved(S) ==
    LET listed == {n \in S : g[n].present /\ ~ShellDisabled(n)}
        marked == MarkedByRemoval(g, edges, listed)
        g1 == [n \in Names |-> IF n \in marked /\ g[n].present
                               THEN MarkNode(g[n]) ELSE g[n]]
    IN  /\ pc = "idle"
        /\ ops < MaxOps
        /\ S # {}
        /\ g' = NodesClose(g1, listed)
        /\ closes' = CloseObjs(closes, HeldBy(g1, listed))
        /\ alreadyClosed' = listed
        /\ Changed
        /\ PassForgotten
        /\ UNCHANGED <<edges, tasks>>

\* --------------------------------------------------- removeMarkedAndClose
\* Graph.RemoveMarked: the marked nodes leave the graph.
ToRemove(gr) == {n \in Names : gr[n].present /\ gr[n].marked}

\* A worker goroutine keeps its *GraphNode: once the node left the graph the
\* worker acts on a node the graph no longer holds.
DetachTasks(ts, S) ==
    {IF t.node \in S /\ t.wpc # "start" THEN [t EXCEPT !.detached = TRUE] ELSE t : t \in ts}

\* removeMarkedAndClose(ctx, excludeFromClose)
RemoveMarkedAndCloseObjs(gr, exclude) == HeldBy(gr, ToRemove(gr) \ exclude)

RemoveMarkedAndClose ==
    /\ pc = "idle"
    /\ ToRemove(g) # {}
    /\ closes' = CloseObjs(closes, RemoveMarkedAndCloseObjs(g, alreadyClosed))
    /\ g' = [n \in Names |-> IF n \in ToRemove(g) THEN AbsentNode ELSE g[n]]
    /\ edges' = RemoveEdgesOf(edges, ToRemove(g))
    /\ tasks' = DetachTasks(tasks, ToRemove(g))
    /\ alreadyClosed' = {}
    /\ PassForgotten
    /\ UNCHANGED <<ops, dirty, faults>>

\* ------------------------------------------------------------------ Close
\* A sweep that leaves nothing out.
NoExclude == {}

\* The web service is left for the caller of Close to close.
excludeWebFromClose == {WebName}

\* Close: the whole graph is marked for removal, removed and closed.
CloseManager ==
    LET g1 == [n \in Names |-> IF g[n].present THEN MarkNode(g[n]) ELSE g[n]]
    IN  /\ pc = "idle"
        /\ ops < MaxOps
        /\ Present(g) # {}
        /\ closes' = CloseObjs(closes, RemoveMarkedAndCloseObjs(g1, excludeWebFromClose))
        /\ g' = [n \in Names |-> AbsentNode]
        /\ edges' = {}
        /\ tasks' = DetachTasks(tasks, ToRemove(g1))
        /\ alreadyClosed' = {}
        /\ Changed
        /\ PassForgotten

\* ------------------------------------------------------- remote federation
\* What the peer answers to ResourceNames(): nil (connection broken), no
\* resource, or the one resource.
PeerAnswers == {"nil", "empty", "x"}

\* updateRemoteResourceNames(ctx, remoteName, rr, recreateAllClients), as the
\* graph, edges and close counts it leaves.
UpdateRemoteResourceNames(gr, E, cl, resp, recreate) ==
    IF resp = "nil"
    THEN [g |-> MarkReachability(gr, E, RemoteName, FALSE), edges |-> E, closes |-> cl,
          changed |-> FALSE]
    ELSE
    LET g1 == MarkReachability(gr, E, RemoteName, TRUE)
        old == {c \in GetAllChildrenOf(E, RemoteName) : ContainsRemoteNames(c)}
        adv == resp = "x"
        nd == g1[ForeignName]
        live == nd.present /\ ~IsUninitialized(nd)
        active == adv /\ ForeignName \in old
        steady == active /\ live /\ ~recreate
        recreating == active /\ live /\ recreate
        dropped == ForeignName \in old /\ ~active /\ live
        closing == recreating \/ dropped
        g2 == IF closing
              THEN NodesClose(MarkChildrenForUpdate(g1, E, ForeignName), {ForeignName})
              ELSE g1
        cl2 == IF closing THEN CloseObjs(cl, HeldBy(g1, {ForeignName})) ELSE cl
        install == adv /\ ~steady
        stub == Len(cl2) + 1
        g3 == IF install
              THEN [g2 EXCEPT ![ForeignName] =
                       IF nd.present THEN SwapResource(g2[ForeignName], stub, unknownModel)
                       ELSE NewConfiguredGraphNode(stub, unknownModel)]
              ELSE g2
    IN  [g |-> g3,
         edges |-> IF install THEN AddChild(E, ForeignName, RemoteName) ELSE E,
         closes |-> IF install THEN Append(cl2, 0) ELSE cl2,
         changed |-> (install /\ AddChildOk(E \ {<<ForeignName, RemoteName>>},
                                            ForeignName, RemoteName)) \/ dropped]

\* updateRemotesResourceNames(ctx): the periodic refresh of every remote whose
\* client the node hands out.
RefreshRemotes(resp) ==
    LET r == UpdateRemoteResourceNames(g, edges, closes, resp, FALSE)
    IN  /\ pc = "idle"
        /\ ops < MaxOps
        /\ g[RemoteName].present
        /\ ResourceErr(g[RemoteName]) = NoErr
        /\ g' = r.g
        /\ edges' = r.edges
        /\ closes' = r.closes
        /\ Changed
        /\ PassForgotten
        /\ UNCHANGED <<alreadyClosed, tasks>>

\* What can happen to a remote in completeConfigForRemotes: its config fails
\* validation, the dial (or closing the previous client) fails, or the dial
\* succeeds and the peer answers.
RemoteOutcomes == {"validation", "dialfail"} \cup PeerAnswers

\* processRemote closes the client the node hands out, if any, before dialing;
\* the node keeps its reference.
ProcessRemoteCloses(nd) == IF ResourceErr(nd) = NoErr THEN {nd.cur} ELSE {}

\* completeConfigForRemotes for the remote node: processRemote, then addRemote
\* (SwapResource and updateRemoteResourceNames with recreateAllClients).
CompleteConfigForRemote(gr, E, cl, out) ==
    LET nd == gr[RemoteName]
        cl1 == CloseObjs(cl, ProcessRemoteCloses(nd))
        rr == Len(cl1) + 1
    IN  IF ~NeedsReconfigure(nd)
        THEN [g |-> gr, edges |-> E, closes |-> cl, changed |-> FALSE]
        ELSE IF out = "validation"
        THEN [g |-> [gr EXCEPT ![RemoteName] = LogAndSetLastError(nd, "validation")],
              edges |-> E, closes |-> cl, changed |-> FALSE]
        ELSE IF out = "dialfail"
        THEN [g |-> [gr EXCEPT ![RemoteName] = LogAndSetLastError(nd, "dial")],
              edges |-> E, closes |-> cl1, changed |-> FALSE]
        ELSE UpdateRemoteResourceNames(
                 [gr EXCEPT ![RemoteName] = SwapResource(nd, rr, builtinModel)],
                 E, Append(cl1, 0), out, TRUE)

RemoteOutcomeOk(gr, out) ==
    /\ ~NeedsReconfigure(gr[RemoteName]) => out = "empty"

\* ------------------------------------------------- dependency resolution
\* The names in the order they are resolved and walked.
RECURSIVE SortNames(_)
SortNames(S) ==
    IF S = {} THEN <<>>
    ELSE LET m == CHOOSE x \in S : \A y \in S : Ord(x) <= Ord(y)
         IN  <<m>> \o SortNames(S \ {m})

\* The declared dependencies of n that can become edges given E: the named
\* node exists and the edge closes no cycle.
RECURSIVE ResolveNode(_, _, _, _)
ResolveNode(gr, E, n, ds) ==
    IF ds = <<>> THEN E
    ELSE LET d == Head(ds)
         IN  ResolveNode(gr, IF gr[d].present THEN AddChild(E, n, d) ELSE E,
                         n, Tail(ds))

\* A resolver that reports nothing.
NoResolveErr(gr, E, n) == NoErr

ResolveErr(gr, E, n) ==
    IF \E d \in gr[n].deps : ~gr[d].present THEN "unresolved"
    ELSE IF \E d \in gr[n].deps : <<n, d>> \notin E THEN "cycle"
    ELSE NoErr

\* Graph.ResolveDependencies: the declared dependencies of the nodes awaiting
\* (re)configuration become edges; a node whose dependencies cannot be
\* resolved keeps its error.
RECURSIVE ResolveAll(_, _, _)
ResolveAll(gr, E, ns) ==
    IF ns = <<>> THEN [g |-> gr, edges |-> E]
    ELSE LET n == Head(ns)
             E1 == ResolveNode(gr, E, n, SortNames(gr[n].deps))
             err == ResolveErr(gr, E1, n)
             g1 == IF err = NoErr THEN gr
                   ELSE [gr EXCEPT ![n] = LogAndSetLastError(gr[n], err)]
         IN  ResolveAll(g1, E1, Tail(ns))

ResolveDependencies(gr, E) ==
    ResolveAll(gr, E, SortNames({n \in Names : NeedsReconfigure(gr[n])}))

\* ---------------------------------------------------------- ResourceByName
\* The short name under which the remote's resource can also be asked for.
ShortName == "x"

\* A search that stops at the first match.
FindFirstMatch(gr, q) ==
    IF q = ShortName THEN {n \in {ForeignName} : gr[n].present} ELSE {}

\* Graph.FindNodesByShortNameAndAPI(name): the nodes whose name, without its
\* remote prefixes, is the one asked for.
FindNodesByShortNameAndAPI(gr, q) ==
    IF q = ShortName
    THEN {n \in {ForeignName, DeepForeignName} : gr[n].present}
    ELSE {}

NotFound == [kind |-> "NotFound", cause |-> NoErr, obj |-> 0]
Clash == [kind |-> "Clash", cause |-> NoErr, obj |-> 0]

\* gNode.Resource() as ResourceByName hands it on.
NodeLookup(nd) ==
    IF ResourceErr(nd) # NoErr
    THEN [kind |-> "NotAvailable", cause |-> ResourceErr(nd), obj |-> 0]
    ELSE [kind |-> "ok", cause |-> NoErr, obj |-> nd.cur]

\* A lookup that hands out whatever object the node holds.
LookupUnwrapped(gr, q) == [kind |-> "ok", cause |-> NoErr, obj |-> gr[q].cur]

\* ResourceByName(name)
ResourceByName(gr, q) ==
    IF q \in Names /\ gr[q].present THEN NodeLookup(gr[q])
    ELSE IF q \in Names /\ ContainsRemoteNames(q) THEN NotFound
    ELSE LET keys == FindNodesByShortNameAndAPI(gr, q)
         IN  IF Cardinality(keys) > 1 THEN Clash
             ELSE IF Cardinality(keys) = 1
             THEN NodeLookup(gr[CHOOSE k \in keys : TRUE])
             ELSE NotFound

\* ------------------------------------------------------------ completeConfig
\* Dependencies that are always at hand.
NoDepsErr(gr, E, n) == NoErr

\* localRobot.getDependencies(resName, gNode): every declared dependency is an
\* edge and every parent hands out its object.
DepsErr(gr, E, n) ==
    IF \E d \in gr[n].deps : <<n, d>> \notin E THEN "unresolved"
    ELSE IF \E p \in Parents(E, n) : ResourceErr(gr[p]) # NoErr THEN "dep_not_ready"
    ELSE NoErr

\* completeConfig up to the level loop: remotes first, then dependency
\* resolution, then the sort into levels.
CompleteConfigStart(fs, out) ==
    LET r1 == CompleteConfigForRemote(g, edges, closes, out)
        r2 == ResolveDependencies(r1.g, r1.edges)
        lv == ReverseTopologicalSortInLevels(r2.g, r2.edges)
    IN  /\ pc = "idle"
        /\ dirty
        /\ out \in RemoteOutcomes
        /\ RemoteOutcomeOk(g, out)
        /\ g' = r2.g
        /\ edges' = r2.edges
        /\ closes' = r1.closes
        /\ levels' = lv
        /\ lvl' = 1
        /\ todo' = IF lv = <<>> THEN {} ELSE lv[1]
        /\ pc' = IF lv = <<>> THEN "idle" ELSE "launch"
        /\ forceSync' = fs
        /\ cancelled' = FALSE
        /\ hist' = [phase |-> IF lv = <<>> THEN "ended" ELSE "running",
                    started |-> {}, timedOut |-> {}, abort |-> FALSE,
                    clean |-> /\ tasks = {}
                              /\ out \in PeerAnswers
                              /\ \A n \in Names : NeedsReconfigure(r2.g[n])
                                     => ResolveErr(r2.g, r2.edges, n) = NoErr]
        /\ dirty' = FALSE
        /\ UNCHANGED <<ops, faults, alreadyClosed, tasks>>

\* completeConfig returns.
PassReturns == pc' = "idle" /\ hist' = [hist EXCEPT !.phase = "ended"]

\* A processResource invocation for name n, its worker not yet scheduled.
NewTask(n) ==
    [node |-> n, lvl |-> lvl, wpc |-> "start", wrap |-> "wait",
     ctxErr |-> "none", outer |-> FALSE, sync |-> forceSync,
     model |-> "none", res |-> 0, detached |-> FALSE]

\* The loops over a level (lines 660-827): the context check, then one
\* processResource per name, inline one after the other when synchronous,
\* else all of them through the level's errgroup (a cancellation is seen
\* before the first or after the last name of such a level).
Launch ==
    /\ pc = "launch"
    /\ IF cancelled
       THEN PassReturns /\ UNCHANGED <<tasks, todo>>
       ELSE IF todo = {}
       THEN pc' = "wait" /\ UNCHANGED <<tasks, todo, hist>>
       ELSE IF forceSync
       THEN LET n == Head(SortNames(todo))
            IN  /\ tasks' = tasks \cup {NewTask(n)}
                /\ todo' = todo \ {n}
                /\ hist' = [hist EXCEPT !.started = @ \cup {n}]
                /\ pc' = "syncwait"
       ELSE /\ tasks' = tasks \cup {NewTask(n) : n \in todo}
            /\ todo' = {}
            /\ hist' = [hist EXCEPT !.started = @ \cup todo]
            /\ pc' = "wait"
    /\ UNCHANGED <<g, edges, closes, ops, dirty, faults, alreadyClosed, levels, lvl,
                   forceSync, cancelled>>

\* A pass that moves on without waiting for its level.
NoLevelWait == TRUE

\* A pass that waits for the worker goroutines themselves.
AllWorkersThrough == tasks = {}

\* levelErrG.Wait(): every processResource of the level has returned.
LevelReturned ==
    \A t \in tasks : t.lvl = lvl => t.wrap = "ret"

LevelWait ==
    /\ pc = "wait"
    /\ LevelReturned
    /\ IF hist.abort \/ lvl >= Len(levels)
       THEN PassReturns /\ UNCHANGED <<lvl, todo>>
       ELSE pc' = "launch" /\ lvl' = lvl + 1 /\ todo' = levels[lvl + 1]
            /\ UNCHANGED hist
    /\ UNCHANGED <<g, edges, closes, ops, dirty, faults, alreadyClosed, levels,
                   forceSync, cancelled, tasks>>

\* The context handed to completeConfig is cancelled while it runs.
Cancel ==
    /\ pc # "idle"
    /\ ~cancelled
    /\ faults < MaxFaults
    /\ faults' = faults + 1
    /\ cancelled' = TRUE
    /\ tasks' = {IF t.wrap = "wait" THEN [t EXCEPT !.outer = TRUE] ELSE t : t \in tasks}
    /\ hist' = [hist EXCEPT !.clean = FALSE]
    /\ UNCHANGED <<g, edges, closes, ops, dirty, alreadyClosed, pc, levels, lvl,
                   todo, forceSync>>

\* --------------------------------------------------- processResource (closure)
\* A closure that also returns an error when its resource timed out.
TimeoutReturnsErr(t, how) == how \in {"ctx", "timeout"}

\* What the closure returns from its select (lines 788-801): nil when the
\* worker signalled or the resource timed out, ctx.Err() when the outer
\* context is done.
ClosureReturnsErr(t, how) == how = "ctx"

\* The deferred timeoutCancel and the deadline, as the worker will see them in
\* ctxWithTimeout.Err().
CtxErrAfter(t, how) ==
    IF t.ctxErr # "none" THEN t.ctxErr
    ELSE IF how = "timeout" THEN "deadline"
    ELSE "canceled"

\* One processResource closure returns before its worker is through: the
\* resource's timeout elapsed, or the outer context is done.
ClosureReturn(t, how) ==
    /\ t \in tasks
    /\ t.wrap = "wait"
    /\ how \in {"timeout", "ctx"}
    /\ how = "ctx" => t.outer
    /\ how = "timeout" => faults < MaxFaults
    /\ faults' = IF how = "timeout" THEN faults + 1 ELSE faults
    /\ tasks' = (tasks \ {t}) \cup
                    {[t EXCEPT !.wrap = "ret", !.ctxErr = CtxErrAfter(t, how),
                               !.outer = FALSE, !.lvl = 0, !.sync = FALSE]}
    /\ LET h1 == IF how = "timeout"
                 THEN [hist EXCEPT !.timedOut = @ \cup {t.node}, !.clean = FALSE]
                 ELSE hist
           h2 == IF ClosureReturnsErr(t, how) THEN [h1 EXCEPT !.abort = TRUE] ELSE h1
       IN  IF t.sync
           THEN IF ClosureReturnsErr(t, how)
                THEN pc' = "idle" /\ hist' = [h2 EXCEPT !.phase = "ended"]
                ELSE pc' = "launch" /\ hist' = h2
           ELSE pc' = pc /\ hist' = h2
    /\ UNCHANGED <<g, edges, closes, ops, dirty, alreadyClosed, levels, lvl, todo,
                   forceSync, cancelled>>

\* ------------------------------------------------------- worker goroutine
\* The worker is through: it signals resChan and its closure, if still
\* waiting, returns nil (lines 788-790); an inline closure hands control back
\* to the level loop.
WorkerDone(ts, t) == ts \ {t}
Resumes(t) == pc' = IF t.wrap = "wait" /\ t.sync THEN "launch" ELSE pc

WorkerAt(ts, t, at, model, res) ==
    (ts \ {t}) \cup {[t EXCEPT !.wpc = at, !.model = model, !.res = res]}

\* A worker that never installs what it built.
NeverSwap(t) == FALSE

\* May the worker install the object it holds?  Lines 770-780: not when the
\* resource's timeout has elapsed.
MaySwap(t) == t.ctxErr # "deadline"

\* Lines 752-780: what the worker does with the result of processResource.
WorkerFinish(gr, E, t, res, newlyBuilt, err) ==
    LET g1 == IF newlyBuilt \/ err # NoErr
              THEN MarkChildrenForUpdate(gr, E, t.node) ELSE gr
        nd == g1[t.node]
        nd2 == IF err # NoErr THEN LogAndSetLastError(nd, err)
               ELSE IF MaySwap(t) THEN SwapResource(nd, res, t.model)
               ELSE nd
    IN  IF t.detached THEN g1 ELSE [g1 EXCEPT ![t.node] = nd2]

Failed == hist' = IF hist.phase = "none" THEN hist ELSE [hist EXCEPT !.clean = FALSE]

\* The worker starts (lines 711-747 and processResource up to its first
\* blocking call): node lookup, validation, then the constructor or
\* Reconfigure call is entered, or the old object is closed for a rebuild.
WorkerBegin(t, v) ==
    LET nd == g[t.node]
        derr == DepsErr(g, edges, t.node)
        t1 == [t EXCEPT !.model = nd.cfgModel, !.detached = FALSE]
    IN
    /\ t \in tasks
    /\ t.wpc = "start"
    /\ v \in {"ok", "validation", "modvalidation"}
    /\ v = "modvalidation" => IsModular(t.node)
    /\ IF ~NeedsReconfigure(nd) \/ ~IsComponentOrService(t.node)
       THEN /\ v = "ok"
            /\ tasks' = WorkerDone(tasks, t)
            /\ Resumes(t)
            /\ UNCHANGED <<g, closes, hist>>
       ELSE IF v # "ok"
       THEN /\ g' = [g EXCEPT ![t.node] = LogAndSetLastError(nd, v)]
            /\ tasks' = WorkerDone(tasks, t)
            /\ Resumes(t)
            /\ Failed
            /\ UNCHANGED closes
       ELSE IF IsUninitialized(nd)
       THEN IF derr # NoErr
            THEN /\ g' = WorkerFinish(g, edges, t1, 0, FALSE, "build")
                 /\ tasks' = WorkerDone(tasks, t)
                 /\ Resumes(t)
                 /\ Failed
                 /\ UNCHANGED closes
            ELSE /\ tasks' = WorkerAt(tasks, t, "build", nd.cfgModel, 0)
                 /\ UNCHANGED <<g, closes, hist, pc>>
       ELSE IF derr # NoErr
       THEN /\ g' = WorkerFinish([g EXCEPT ![t.node] = CloseAndUnsetNode(nd)],
                                 edges, t1, 0, FALSE, "build")
            /\ closes' = CloseObjs(closes, CloseAndUnsetObjs(nd))
            /\ tasks' = WorkerDone(tasks, t)
            /\ Resumes(t)
            /\ Failed
       ELSE IF nd.curModel = nd.cfgModel
       THEN /\ tasks' = WorkerAt(tasks, t, "reconf", nd.cfgModel, nd.cur)
            /\ UNCHANGED <<g, closes, hist, pc>>
       ELSE /\ g' = [g EXCEPT ![t.node] = CloseAndUnsetNode(nd)]
            /\ closes' = CloseObjs(closes, CloseAndUnsetObjs(nd))
            /\ tasks' = WorkerAt(tasks, t, "build", nd.cfgModel, 0)
            /\ UNCHANGED <<hist, pc>>
    /\ UNCHANGED <<edges, ops, dirty, faults, alreadyClosed, levels, lvl, todo,
                   forceSync, cancelled>>

\* The Reconfigure call of the current object (or of the module manager)
\* returns: nil, an error, or a must-rebuild error.
WorkerReconfigured(t, out) ==
    LET nd == g[t.node]
        closing == out = "rebuild" /\ ~t.detached
    IN
    /\ t \in tasks
    /\ t.wpc = "reconf"
    /\ out \in {"ok", "err", "rebuild"}
    /\ out = "rebuild" => ~IsModular(t.node)
    /\ IF out = "ok"
       THEN /\ g' = WorkerFinish(g, edges, t, t.res, FALSE, NoErr)
            /\ tasks' = WorkerDone(tasks, t)
            /\ Resumes(t)
            /\ UNCHANGED <<closes, hist>>
       ELSE IF out = "err"
       THEN /\ g' = WorkerFinish(g, edges, t, 0, FALSE, "reconfigure")
            /\ tasks' = WorkerDone(tasks, t)
            /\ Resumes(t)
            /\ Failed
            /\ UNCHANGED closes
       ELSE /\ closes' = IF closing THEN CloseObjs(closes, CloseAndUnsetObjs(nd)) ELSE closes
            /\ IF DepsErr(g, edges, t.node) # NoErr
               THEN /\ g' = WorkerFinish(IF closing
                                         THEN [g EXCEPT ![t.node] = CloseAndUnsetNode(nd)]
                                         ELSE g,
                                         edges, t, 0, FALSE, "build")
                    /\ tasks' = WorkerDone(tasks, t)
                    /\ Resumes(t)
                    /\ Failed
               ELSE /\ g' = IF closing THEN [g EXCEPT ![t.node] = CloseAndUnsetNode(nd)]
                            ELSE g
                    /\ tasks' = WorkerAt(tasks, t, "build", t.model, 0)
                    /\ UNCHANGED <<hist, pc>>
    /\ UNCHANGED <<edges, ops, dirty, faults, alreadyClosed, levels, lvl, todo,
                   forceSync, cancelled>>

\* The constructor (lr.newResource) returns: a new object, or an error.
WorkerBuilt(t, out) ==
    /\ t \in tasks
    /\ t.wpc = "build"
    /\ out \in {"ok", "err"}
    /\ IF out = "ok"
       THEN /\ closes' = Append(closes, 0)
            /\ g' = WorkerFinish(g, edges, t, NewObj, TRUE, NoErr)
            /\ UNCHANGED hist
       ELSE /\ g' = WorkerFinish(g, edges, t, 0, FALSE, "build")
            /\ Failed
            /\ UNCHANGED closes
    /\ tasks' = WorkerDone(tasks, t)
    /\ Resumes(t)
    /\ UNCHANGED <<edges, ops, dirty, faults, alreadyClosed, levels, lvl, todo,
                   forceSync, cancelled>>

\* ---------------------------------------------------------- specification
Init ==
    /\ g = [n \in Names |-> AbsentNode]
    /\ edges = {}
    /\ closes = <<>>
    /\ ops = 0
    /\ dirty = FALSE
    /\ faults = 0
    /\ alreadyClosed = {}
    /\ pc = "idle"
    /\ levels = <<>>
    /\ lvl = 0
    /\ todo = {}
    /\ forceSync = FALSE
    /\ cancelled = FALSE
    /\ tasks = {}
    /\ hist = NoPass
    /\ untrustedEnv = FALSE
    /\ ret = NoRet
    /\ bridge = NoBridge
    /\ idem = NoIdem

\* The level-parallel pass over local resources, with timeouts and
\* cancellation.
Next ==
    \/ (\E d \in LocalDiffs : UpdateResources(d)) /\ UNCHANGED aux
    \/ (\E S \in SUBSET (Present(g) \cap Configurable) : MarkRemoved(S)) /\ UNCHANGED aux
    \/ RemoveMarkedAndClose /\ UNCHANGED aux
    \/ CloseManager /\ UNCHANGED aux
    \/ (\E fs \in BOOLEAN, out \in RemoteOutcomes : CompleteConfigStart(fs, out)) /\ UNCHANGED aux
    \/ Launch /\ UNCHANGED aux
    \/ LevelWait /\ UNCHANGED aux
    \/ Cancel /\ UNCHANGED aux
    \/ (\E t \in tasks, how \in {"timeout", "ctx"} : ClosureReturn(t, how)) /\ UNCHANGED aux
    \/ (\E t \in tasks, v \in {"ok", "validation", "modvalidation"} : WorkerBegin(t, v)) /\ UNCHANGED aux
    \/ (\E t \in tasks, out \in {"ok", "err", "rebuild"} : WorkerReconfigured(t, out)) /\ UNCHANGED aux
    \/ (\E t \in tasks, out \in {"ok", "err"} : WorkerBuilt(t, out)) /\ UNCHANGED aux

Spec == Init /\ [][Next]_vars

\* Local and remote resources together, the pass synchronous and every worker
\* answering in time.
NextFed ==
    \/ (\E d \in Diffs : UpdateResources(d)) /\ UNCHANGED aux
    \/ (\E S \in SUBSET (Present(g) \cap Configurable) : MarkRemoved(S)) /\ UNCHANGED aux
    \/ RemoveMarkedAndClose /\ UNCHANGED aux
    \/ CloseManager /\ UNCHANGED aux
    \/ (\E resp \in PeerAnswers : RefreshRemotes(resp)) /\ UNCHANGED aux
    \/ (\E out \in RemoteOutcomes : CompleteConfigStart(TRUE, out)) /\ UNCHANGED aux
    \/ Launch /\ UNCHANGED aux
    \/ LevelWait /\ UNCHANGED aux
    \/ (\E t \in tasks, v \in {"ok", "validation", "modvalidation"} : WorkerBegin(t, v)) /\ UNCHANGED aux
    \/ (\E t \in tasks, out \in {"ok", "err", "rebuild"} : WorkerReconfigured(t, out)) /\ UNCHANGED aux
    \/ (\E t \in tasks, out \in {"ok", "err"} : WorkerBuilt(t, out)) /\ UNCHANGED aux

FedSpec == Init /\ [][NextFed]_vars

\* One configuration with a local resource "a" whose constructor may hang, a
\* remote, and a local resource "b" that depends on the remote's resource;
\* every other worker answers, and the context is never cancelled.
LiveDiffs == {d \in Diffs : /\ d.a # NoConf /\ d.a.deps = {}
                            /\ d.r # NoConf
                            /\ d.b # NoConf /\ d.b.deps = {ForeignName}}

NextLive ==
    \/ (\E d \in LiveDiffs : ops = 0 /\ UpdateResources(d)) /\ UNCHANGED aux
    \/ (\E fs \in BOOLEAN : CompleteConfigStart(fs, "x")) /\ UNCHANGED aux
    \/ Launch /\ UNCHANGED aux
    \/ LevelWait /\ UNCHANGED aux
    \/ (\E t \in tasks : t.node = "a" /\ ClosureReturn(t, "timeout")) /\ UNCHANGED aux
    \/ (\E t \in tasks : WorkerBegin(t, "ok")) /\ UNCHANGED aux
    \/ (\E t \in tasks : WorkerBuilt(t, "ok")) /\ UNCHANGED aux

\* The level loop runs, the timer of a resource fires, and the workers of
\* every resource but "a" make progress.
LiveSpec ==
    /\ Init /\ [][NextLive]_vars
    /\ WF_vars(Launch /\ UNCHANGED aux)
    /\ WF_vars(LevelWait /\ UNCHANGED aux)
    /\ WF_vars((\E t \in tasks : t.node = "a" /\ ClosureReturn(t, "timeout"))
                   /\ UNCHANGED aux)
    /\ WF_vars((\E t \in tasks : t.node # "a" /\ WorkerBegin(t, "ok")) /\ UNCHANGED aux)
    /\ WF_vars((\E t \in tasks : t.node # "a" /\ WorkerBuilt(t, "ok")) /\ UNCHANGED aux)

\* ------------------------------------------------------- ResourceNames
\* GraphNode.HasResource
HasResource(nd) == nd.cur # 0

\* An enumeration that lists every node holding an object.
AnyResourceName(gr, k) == gr[k].present /\ HasResource(gr[k])

\* resourceName(k): is k a name ResourceNames returns?
resourceName(gr, k) ==
    IF IsRemoteAPI(k) \/ IsInternalNamespace(k) THEN FALSE
    ELSE gr[k].present /\ HasResource(gr[k])

\* ResourceNames(), over Graph.Names()
ResourceNames(gr) == {k \in Present(gr) : resourceName(gr, k)}

\* reachableResourceNames(), over Graph.ReachableNames()
reachableResourceNames(gr) ==
    {k \in {n \in Present(gr) : ~gr[n].unreach} : resourceName(gr, k)}

\* ------------------------------------------------------------- lookups
\* The names a caller may ask for.
Queries == {"a", "b", RemoteName, ForeignName, DeepForeignName, ShortName, WebName}

\* A mounted remote whose peer advertises the resource, its own remote's
\* resource of the same short name, both or neither, next to a local
\* resource that is absent, not built yet, built, or in error.
LookupGraphs ==
    {[n \in Names |->
         CASE n = RemoteName -> NewConfiguredGraphNode(1, builtinModel)
           [] n = ForeignName ->
                  IF fx THEN NewConfiguredGraphNode(2, unknownModel) ELSE AbsentNode
           [] n = DeepForeignName ->
                  IF fsx THEN NewConfiguredGraphNode(3, unknownModel) ELSE AbsentNode
           [] n = "a" ->
                  CASE la = "absent" -> AbsentNode
                    [] la = "new" -> NewUnconfiguredGraphNode("m1", {})
                    [] la = "ready" -> SwapResource(NewUnconfiguredGraphNode("m1", {}), 4, "m1")
                    [] OTHER -> LogAndSetLastError(
                                    SwapResource(NewUnconfiguredGraphNode("m1", {}), 4, "m1"),
                                    "reconfigure")
           [] OTHER -> AbsentNode] :
        fx \in BOOLEAN, fsx \in BOOLEAN, la \in {"absent", "new", "ready", "error"}}

InitLookup ==
    /\ g \in LookupGraphs
    /\ edges = {<<n, RemoteName>> : n \in {m \in {ForeignName, DeepForeignName} : g[m].present}}
    /\ closes = <<0, 0, 0, 0>>
    /\ ops = 0
    /\ dirty = FALSE
    /\ faults = 0
    /\ alreadyClosed = {}
    /\ pc = "idle"
    /\ levels = <<>>
    /\ lvl = 0
    /\ todo = {}
    /\ forceSync = FALSE
    /\ cancelled = FALSE
    /\ tasks = {}
    /\ hist = NoPass
    /\ untrustedEnv = FALSE
    /\ ret = NoRet
    /\ bridge = NoBridge
    /\ idem = NoIdem

\* A caller asks for a name.
Lookup(q) ==
    /\ pc = "idle"
    /\ ret' = [op |-> "lookup", errs |-> {}, q |-> q, val |-> ResourceByName(g, q)]
    /\ UNCHANGED <<g, edges, closes, ops, dirty, faults, alreadyClosed, pc, levels, lvl,
                   todo, forceSync, cancelled, tasks, hist, untrustedEnv, bridge, idem>>

NextLookup == \E q \in Queries : Lookup(q)

LookupSpec == InitLookup /\ [][NextLookup]_vars

\* ------------------------------------------------ applying a diff twice
\* The revision tags a diff may carry (config.Diff.NewRevision).
Revisions == {1, 2}

\* The last pass is over and left every node of the graph configured.
Settled ==
    /\ pc = "idle" /\ ~dirty /\ tasks = {} /\ hist.phase = "ended"
    /\ \A n \in Present(g) : ~g[n].needsReconf /\ ResourceErr(g[n]) = NoErr

\* markResourceForUpdate: gNode.UpdatePendingRevision(revision) on every node
\* of the diff.
UpdatePendingRevision(pending, d, rv) ==
    [n \in Names |-> IF n \in ToMark(d) THEN rv ELSE pending[n]]

\* updateResources(diff) with the diff's revision; the observer notes whether
\* it is the diff of the application before, and the graph it was applied to.
IdemUpdate(d, rv) ==
    LET again == idem.diff = <<d, rv>> /\ Settled
    IN  /\ UpdateResources(d)
        /\ idem' = [diff |-> <<d, rv>>, second |-> again, calls |-> 0,
                    snap |-> IF again THEN <<Present(g), edges, idem.rev>> ELSE <<>>,
                    rev |-> idem.rev,
                    pending |-> UpdatePendingRevision(idem.pending, d, rv),
                    before |-> g, ctor |-> [n \in Names |-> 0], must |-> {},
                    add |-> [n \in Names |-> 0], reconf |-> [n \in Names |-> 0]]
        /\ UNCHANGED <<untrustedEnv, ret, bridge>>

\* A worker entered a constructor or a Reconfigure call in this step.
Invoked == \E u \in tasks' \ tasks : u.wpc \in {"reconf", "build"}

\* SwapResource put an object into node n in this step: the pending revision
\* becomes the node's revision.
Swapped(n) == g[n].needsReconf /\ g'[n].present /\ ~g'[n].needsReconf

\* The calls of one kind ("build": constructor or AddResource, "reconf":
\* Reconfigure or ReconfigureResource) a step enters, added to the count cnt;
\* with viaBridge only the calls that go to the module manager.
Entered(cnt, kind, viaBridge) ==
    [n \in Names |->
        IF /\ \E u \in tasks' \ tasks : u.node = n /\ u.wpc = kind
           /\ viaBridge => IsModular(n)
        THEN IF cnt[n] < 2 THEN cnt[n] + 1 ELSE 2
        ELSE cnt[n]]

\* What a step of a pass adds to the observations: the calls of constructors
\* and Reconfigure, the revisions, the constructor calls per resource, the
\* AddResource and ReconfigureResource calls per resource, and the resources
\* whose Reconfigure answered that they must be rebuilt (the worker closes the
\* object it reconfigured).
IdemObserves ==
    /\ idem' = [idem EXCEPT
                   !.calls = IF Invoked THEN @ + 1 ELSE @,
                   !.rev = [n \in Names |-> IF Swapped(n) THEN idem.pending[n] ELSE @[n]],
                   !.ctor = Entered(@, "build", FALSE),
                   !.add = Entered(@, "build", TRUE),
                   !.reconf = Entered(@, "reconf", TRUE),
                   !.must = @ \cup {t.node : t \in {u \in tasks :
                                        /\ u.wpc = "reconf"
                                        /\ closes'[u.res] # closes[u.res]}}]
    /\ UNCHANGED <<untrustedEnv, ret, bridge>>

\* Local resources, configured by diffs that carry a revision; the pass is
\* synchronous and every worker answers in time.
NextIdem ==
    \/ \E d \in LocalDiffs, rv \in Revisions : IdemUpdate(d, rv)
    \/ CompleteConfigStart(TRUE, "empty") /\ IdemObserves
    \/ Launch /\ IdemObserves
    \/ LevelWait /\ IdemObserves
    \/ (\E t \in tasks, v \in {"ok", "validation", "modvalidation"} : WorkerBegin(t, v))
           /\ IdemObserves
    \/ (\E t \in tasks, out \in {"ok", "err", "rebuild"} : WorkerReconfigured(t, out))
           /\ IdemObserves
    \/ (\E t \in tasks, out \in {"ok", "err"} : WorkerBuilt(t, out)) /\ IdemObserves

IdemSpec == Init /\ [][NextIdem]_vars

\* ------------------------------------------- the host and its teardown
errShellServiceDisabled == "shell_disabled"

\* What updateResources returns: one error for each shell service it skipped.
UpdateResourcesErrs(d) ==
    IF \E n \in Modified(d) : ShellDisabled(n) THEN {errShellServiceDisabled} ELSE {}

\* Diffs over two local resources and the shell service.
HostDiffs ==
    [a : {NoConf} \cup [model : {"m1"}, deps : {{}}],
     b : {NoConf} \cup [model : {"m1"}, deps : {{}, {"a"}}],
     sh : {NoConf} \cup Confs(ShellName)]

HostUpdate(d) ==
    /\ UpdateResources(d)
    /\ ret' = [op |-> "update", errs |-> UpdateResourcesErrs(d)]
    /\ UNCHANGED <<untrustedEnv, bridge, idem>>

\* The RemoveResource calls for each name since it was last added.
RemoveResourceCalls(cnt, added, removed) ==
    [n \in Names |-> IF n \in added THEN 0
                     ELSE IF n \in removed THEN (IF cnt[n] < 2 THEN cnt[n] + 1 ELSE 2)
                     ELSE cnt[n]]

\* The module manager as the steps of the manager reach it: AddResource when a
\* modular resource is built, RemoveResource when closeResource closes one.
BridgeObserves ==
    LET added == IF Len(closes') > Len(closes)
                 THEN {t.node : t \in {u \in tasks \ tasks' :
                                           u.wpc = "build" /\ IsModular(u.node)}}
                 ELSE {}
        removed == {n \in Names : /\ IsModular(n) /\ g[n].cur # 0
                                  /\ closes'[g[n].cur] # closes[g[n].cur]}
    IN  /\ bridge' = [bridge EXCEPT
                         !.state = (@ \cup added) \ removed,
                         !.removes = RemoveResourceCalls(@, added, removed)]
        /\ UNCHANGED <<untrustedEnv, ret, idem>>

\* Graph.RemoveMarked hands the objects back dependents first.
RECURSIVE CloseOrder(_)
CloseOrder(lv) ==
    IF lv = <<>> THEN <<>> ELSE CloseOrder(Tail(lv)) \o SortNames(Head(lv))

\* A Close that shuts the module manager down before the resources.
ModManagerFirst(evs) == << <<"bridge", "">> >> \o evs

\* Close shuts the module manager down after removeMarkedAndClose.
ModManagerLast(evs) == evs \o << <<"bridge", "">> >>

\* removeMarkedAndClose, step by step: closeResource for every object
\* RemoveMarked handed back and the sweep does not leave out (res.Close, then
\* RemoveResource for a modular resource).
RECURSIVE CloseTrace(_, _, _)
CloseTrace(gr, order, exclude) ==
    IF order = <<>> THEN <<>>
    ELSE LET n == Head(order)
             ev == IF gr[n].cur = 0 \/ n \in exclude THEN <<>>
                   ELSE IF IsModular(n) THEN << <<"close", n>>, <<"remove", n>> >>
                   ELSE << <<"close", n>> >>
         IN  ev \o CloseTrace(gr, Tail(order), exclude)

\* A Close that gives up at the first error.
FirstCloseErr(held, F, mf, active) ==
    LET all == {<<"close", n>> : n \in held \cap F}
    IN  IF all = {} THEN {} ELSE {CHOOSE e \in all : TRUE}

\* What Close returns: the error of every res.Close that failed, combined
\* with the error of the module manager's Close (which fails when resources
\* are still active in it).
CloseErrs(held, F, mf, active) ==
    {<<"close", n>> : n \in held \cap F}
        \cup (IF mf \/ active # {} THEN {<<"bridge", "">>} ELSE {})

\* Close(ctx), the objects of F failing to close and the module manager's
\* own Close failing when mf.
CloseAll(F, mf) ==
    LET held == {n \in Present(g) \ excludeWebFromClose : g[n].cur # 0}
        active == bridge.state \ {n \in held : IsModular(n)}
    IN  /\ CloseManager
        /\ F \subseteq held
        /\ bridge' = [state |-> active,
                      trace |-> ModManagerLast(
                                    CloseTrace(g, CloseOrder(ReverseTopologicalSortInLevels(g, edges)),
                                               excludeWebFromClose)),
                      closed |-> TRUE, closedWith |-> active,
                      removes |-> RemoveResourceCalls(bridge.removes, {},
                                                      {n \in held : IsModular(n)})]
        /\ ret' = [op |-> "close", errs |-> CloseErrs(held, F, mf, active),
                   held |-> held, failing |-> F, mf |-> mf]
        /\ UNCHANGED <<untrustedEnv, idem>>

\* The manager as the host sets it up: the internal services are in the
\* graph, built, before the first configuration.
InitHost ==
    /\ g = [n \in Names |-> CASE n = WebName -> NewConfiguredGraphNode(1, builtinModel)
                              [] n = InternalName -> NewConfiguredGraphNode(2, builtinModel)
                              [] OTHER -> AbsentNode]
    /\ edges = {}
    /\ closes = <<0, 0>>
    /\ ops = 0
    /\ dirty = FALSE
    /\ faults = 0
    /\ alreadyClosed = {}
    /\ pc = "idle"
    /\ levels = <<>>
    /\ lvl = 0
    /\ todo = {}
    /\ forceSync = FALSE
    /\ cancelled = FALSE
    /\ tasks = {}
    /\ hist = NoPass
    /\ untrustedEnv \in BOOLEAN
    /\ ret = NoRet
    /\ bridge = NoBridge
    /\ idem = NoIdem

NextHost ==
    \/ \E d \in HostDiffs : HostUpdate(d)
    \/ (\E S \in SUBSET (Present(g) \cap Configurable) : MarkRemoved(S)) /\ BridgeObserves
    \/ RemoveMarkedAndClose /\ BridgeObserves
    \/ \E F \in SUBSET Names, mf \in BOOLEAN : CloseAll(F, mf)
    \/ CompleteConfigStart(TRUE, "empty") /\ BridgeObserves
    \/ Launch /\ BridgeObserves
    \/ LevelWait /\ BridgeObserves
    \/ (\E t \in tasks, v \in {"ok", "validation", "modvalidation"} : WorkerBegin(t, v))
           /\ BridgeObserves
    \/ (\E t \in tasks, out \in {"ok", "err", "rebuild"} : WorkerReconfigured(t, out))
           /\ BridgeObserves
    \/ (\E t \in tasks, out \in {"ok", "err"} : WorkerBuilt(t, out)) /\ BridgeObserves

HostSpec == InitHost /\ [][NextHost]_vars

\* The host's manager with local resources and a remote.
InitFedHost == InitHost /\ ~untrustedEnv

FedHostSpec == InitFedHost /\ [][NextFed]_vars

\* ------------------------------------------------------------- properties
\* One step of the worker goroutine of task t.
WorkerStep(t) ==
    \/ \E v \in {"ok", "validation", "modvalidation"} : WorkerBegin(t, v)
    \/ \E out \in {"ok", "err", "rebuild"} : WorkerReconfigured(t, out)
    \/ \E out \in {"ok", "err"} : WorkerBuilt(t, out)

\* The objects some node of the graph holds.
Held == {g[n].cur : n \in Present(g)} \ {0}

\* C1: every object the manager builds or adopts is closed exactly once: no
\* object is closed a second time, and an object no node holds any more has
\* been closed.
C1_ClosedExactlyOnce ==
    \A o \in DOMAIN closes :
        /\ closes[o] <= 1
        /\ closes[o] = 0 => o \in Held

\* C2: once the timeout of a resource has elapsed, the steps of its worker
\* leave the graph, its nodes and the built objects as they are.
C2_NoMutationAfterTimeout ==
    [][\A t \in tasks : (t.ctxErr = "deadline" /\ WorkerStep(t))
                            => (g' = g /\ closes' = closes)]_vars

\* C3: once the context of the pass is cancelled no further task is started
\* and the steps of the workers in flight leave the graph as it is.
C3_QuietAfterCancel ==
    [][/\ cancelled => ~\E n \in Names : NewTask(n) \in tasks' \ tasks
       /\ \A t \in tasks : ((t.outer \/ t.ctxErr = "canceled") /\ WorkerStep(t))
                               => g' = g]_vars

\* C4: the closures of a level have all returned (their resource configured,
\* failed or timed out) before a task of the next level is started: a closure
\* still waiting belongs to the level the pass is at.
C4_LevelBarrier ==
    \A t \in tasks : t.wrap = "wait" => t.lvl = lvl

\* A task of the second level waits while a worker of the first level, timed
\* out, is still running.
C4_Witness ==
    /\ \E t \in tasks : t.wrap = "wait" /\ t.lvl = 2
    /\ \E t \in tasks : t.wrap = "ret" /\ t.ctxErr = "deadline"

LevelsOf(n) == {i \in 1..Len(levels) : n \in levels[i]}

\* C5: the levels of a pass are topological: every node of the graph is in
\* exactly one level, a node's level is higher than the level of each of its
\* parents, and so no two nodes of one level depend on each other.
C5_TopologicalLevels ==
    levels # <<>> =>
        /\ \A n \in Present(g) : Cardinality(LevelsOf(n)) = 1
        /\ \A e \in edges : \A i \in LevelsOf(e[1]), j \in LevelsOf(e[2]) : i > j

\* A pass over a chain of three: the remote, its resource, a local dependent.
C5_Witness ==
    /\ Len(levels) = 3
    /\ <<ForeignName, RemoteName>> \in edges
    /\ <<"b", ForeignName>> \in edges

\* C6: the graph is acyclic after every operation; a dependency that would
\* close a cycle is not added and the edges already there stay.
C6_Acyclic ==
    /\ ~HasCycle(edges)
    /\ \A e \in edges : g[e[1]].present /\ g[e[2]].present

\* A dependency was refused because it would have closed a cycle, the
\* opposite edge being in the graph.
C6_Witness ==
    \E n \in Locals : /\ g[n].present /\ g[n].lastErr = "cycle"
                       /\ \E d \in g[n].deps : <<n, d>> \notin edges /\ <<d, n>> \in edges

\* C7: a resource whose constructor hangs does not hold up the pass: its
\* timeout is reported, the later levels that do not depend on it are built,
\* and the pass returns.
C7_TimeoutIsolation ==
    (hist.phase = "running") ~>
        (/\ hist.phase = "ended"
         /\ ResourceErr(g["b"]) = NoErr
         /\ (ResourceErr(g["a"]) = NoErr \/ "a" \in hist.timedOut))

\* The pass has returned and "b" is built while the worker of "a", timed out,
\* is still in its constructor.
C7_Witness ==
    /\ hist.phase = "ended"
    /\ "a" \in hist.timedOut
    /\ ResourceErr(g["b"]) = NoErr
    /\ \E t \in tasks : t.node = "a" /\ t.wpc = "build"

AllLevels == UNION {levels[i] : i \in 1..Len(levels)}

\* C8: a pass whose context was not cancelled has started a task for every
\* node of every level when it returns, whatever failed or timed out on the
\* way.
C8_FailureNeverStopsPass ==
    (hist.phase = "ended" /\ ~cancelled) => hist.started = AllLevels

\* A pass returned after a resource of its first level timed out and a
\* resource of its second level failed.
C8_Witness ==
    /\ hist.phase = "ended" /\ ~cancelled
    /\ Len(levels) = 2
    /\ hist.timedOut \cap levels[1] # {}
    /\ \E n \in levels[2] : g[n].lastErr = "build"

\* C9: while nothing has failed, timed out or been cancelled in a pass, a
\* constructor runs only with every parent handing out its object, and when
\* such a pass returns every node not pending removal is configured and hands
\* out its object.
C9_CleanPassConfiguresAll ==
    hist.clean =>
        /\ \A t \in tasks : t.wpc = "build" =>
               \A p \in Parents(edges, t.node) : ResourceErr(g[p]) = NoErr
        /\ hist.phase = "ended" =>
               \A n \in Present(g) : ~g[n].marked =>
                   (~g[n].needsReconf /\ ResourceErr(g[n]) = NoErr)

\* A clean pass over two levels has returned with both resources built.
C9_Witness ==
    /\ hist.phase = "ended" /\ hist.clean
    /\ Len(levels) = 2
    /\ edges # {}
    /\ \A n \in Locals : g[n].present /\ ResourceErr(g[n]) = NoErr

\* What a lookup by name answers for a node of the graph.
C10_Lookup ==
    \A n \in Present(g) :
        LET r == ResourceByName(g, n)
        IN  /\ r.kind \in {"ok", "NotAvailable"}
            /\ g[n].lastErr # NoErr =>
                   /\ r.kind = "NotAvailable"
                   /\ r.obj = 0
                   /\ ~g[n].marked => r.cause = g[n].lastErr

\* Each failure of a step is on the node afterwards.
C10_Stored ==
    /\ \A t \in tasks :
           /\ \A v \in {"validation", "modvalidation"} :
                  WorkerBegin(t, v) => g'[t.node].lastErr = v
           /\ (/\ WorkerBegin(t, "ok")
               /\ NeedsReconfigure(g[t.node]) /\ IsComponentOrService(t.node)
               /\ DepsErr(g, edges, t.node) # NoErr) => g'[t.node].lastErr = "build"
           /\ (WorkerReconfigured(t, "err") /\ ~t.detached)
                  => g'[t.node].lastErr = "reconfigure"
           /\ (WorkerBuilt(t, "err") /\ ~t.detached) => g'[t.node].lastErr = "build"
    /\ \A fs \in BOOLEAN :
           /\ CompleteConfigStart(fs, "dialfail") => g'[RemoteName].lastErr = "dial"
           /\ CompleteConfigStart(fs, "validation") => g'[RemoteName].lastErr = "validation"
           /\ (\E out \in RemoteOutcomes : CompleteConfigStart(fs, out)) =>
                  \A n \in Names :
                      (NeedsReconfigure(g'[n]) /\ ResolveErr(g', edges', n) # NoErr)
                          => g'[n].lastErr = ResolveErr(g', edges', n)

\* C10: every failure of a node (validation, dependency resolution,
\* construction, reconfiguration, remote dial) is stored on the node as its
\* last error, and a lookup of a node with a last error answers NotAvailable
\* with that error as its cause (the pending removal, if the node is marked
\* for removal), never NotFound and never the object the node still holds.
C10_FailuresSurface == []C10_Lookup /\ [][C10_Stored]_vars

\* A node whose reconfiguration failed still holds its object; the lookup
\* answers NotAvailable.
C10_Witness ==
    \E n \in Locals : /\ g[n].present /\ ~g[n].marked
                       /\ g[n].lastErr = "reconfigure" /\ g[n].cur # 0
                       /\ ResourceByName(g, n).kind = "NotAvailable"

\* C11: when a diff is applied a second time to a graph its first application
\* left fully configured, the pass that follows ends with the same nodes, the
\* same edges and the same revisions, and has called no constructor and no
\* Reconfigure.
C11_IdenticalDiffIdempotent ==
    (idem.second /\ hist.phase = "ended" /\ tasks = {}) =>
        /\ <<Present(g), edges, idem.rev>> = idem.snap
        /\ idem.calls = 0

\* The name without its remote prefixes.
ShortOf(n) == IF n \in {ForeignName, DeepForeignName} THEN ShortName ELSE n

\* C12: a lookup answers for the node of exactly that name if there is one;
\* else, for a name without remote prefix, for the one node with that short
\* name behind remotes, with Clash if there are two or more, with NotFound if
\* there is none; a name with a remote prefix and no node is NotFound.
C12_ShortNameLookup ==
    ret.op = "lookup" =>
        LET q == ret.q
            exact == q \in Names /\ g[q].present
            matches == {n \in Present(g) : ContainsRemoteNames(n) /\ ShortOf(n) = q}
        IN  /\ exact => ret.val = NodeLookup(g[q])
            /\ (~exact /\ q \in Names /\ ContainsRemoteNames(q)) => ret.val = NotFound
            /\ (~exact /\ ~(q \in Names /\ ContainsRemoteNames(q))) =>
                   /\ Cardinality(matches) = 0 => ret.val = NotFound
                   /\ Cardinality(matches) >= 2 => ret.val = Clash
                   /\ \A n \in matches :
                          matches = {n} => ret.val = NodeLookup(g[n])

\* The short name was asked for while two nodes behind the remote carry it.
C12_Witness ==
    /\ ret.op = "lookup" /\ ret.q = ShortName /\ ret.val = Clash
    /\ g[ForeignName].present /\ g[DeepForeignName].present

\* What updateResources does with a diff that names the shell service.
C13_Rejected ==
    \A d \in HostDiffs :
        (HostUpdate(d) /\ untrustedEnv /\ d.sh # NoConf) =>
            /\ ret'.errs = {errShellServiceDisabled}
            /\ g'[ShellName] = g[ShellName]

\* C13: in an untrusted environment updateResources answers a diff that adds
\* or modifies the shell service with the shell-disabled error and neither
\* adds a node for it nor touches a node of that name; no shell node is ever
\* in the graph of an untrusted manager.
C13_ShellDisabled ==
    [](untrustedEnv => ~g[ShellName].present) /\ [][C13_Rejected]_vars

\* The diff added a local resource and the shell service; only the first is
\* in the graph and the error was returned.
C13_Witness ==
    /\ untrustedEnv
    /\ ret.op = "update" /\ ret.errs = {errShellServiceDisabled}
    /\ g["a"].present /\ ~g[ShellName].present

\* What one Close closes and returns.
C14_OneClose ==
    \A F \in SUBSET Names, mf \in BOOLEAN :
        CloseAll(F, mf) =>
            /\ \A n \in Present(g) \ {WebName} :
                   g[n].cur # 0 => closes'[g[n].cur] = Closed(closes[g[n].cur])
            /\ \A n \in F : <<"close", n>> \in ret'.errs
            /\ mf => <<"bridge", "">> \in ret'.errs
            /\ \A e \in ret'.errs : e[1] = "bridge" \/ (e[1] = "close" /\ e[2] \in F)

\* C14: Close calls Close on the object of every node but the web service,
\* whichever of them fail, and returns the errors of all the failed ones
\* together with the error of the module manager's Close.
C14_CloseAggregates == [][C14_OneClose]_vars

\* Two objects failed to close and so did the module manager; all three
\* errors came back and every object but the web service's was closed.
C14_Witness ==
    /\ ret.op = "close" /\ ret.mf
    /\ Cardinality(ret.failing) >= 2
    /\ Cardinality(ret.errs) = Cardinality(ret.failing) + 1
    /\ \A o \in DOMAIN closes : o # 1 => closes[o] >= 1

C16_OneClose ==
    \A F \in SUBSET Names, mf \in BOOLEAN :
        CloseAll(F, mf) =>
            /\ g[WebName].cur # 0 => closes'[g[WebName].cur] = closes[g[WebName].cur]
            /\ \A i \in 1..Len(bridge'.trace) : bridge'.trace[i] # <<"close", WebName>>

\* C16: Close never calls Close on the object of the web service node.
C16_WebNotClosed == [][C16_OneClose]_vars

\* After Close the web service's object is open and every other object closed.
C16_Witness ==
    /\ bridge.closed /\ Present(g) = {}
    /\ closes[1] = 0
    /\ Len(closes) >= 3
    /\ \A o \in DOMAIN closes : o # 1 => closes[o] >= 1

\* What one Close does to the internal services.
C17_OneClose ==
    \A F \in SUBSET Names, mf \in BOOLEAN :
        CloseAll(F, mf) =>
            \A n \in Internals :
                g[n].cur # 0 => closes'[g[n].cur] = closes[g[n].cur]

\* C17: Close closes the object of no node of the rdk-internal namespace.
C17_InternalsNotClosed == [][C17_OneClose]_vars

\* C18: ResourceNames() lists exactly the names of the graph that are not a
\* remote machine, not of the rdk-internal namespace, and whose node holds an
\* object; reachableResourceNames() lists those of them whose node is marked
\* reachable.
C18_ResourceNames ==
    /\ ResourceNames(g) =
           {n \in Names : /\ g[n].present /\ g[n].cur # 0
                          /\ n # RemoteName /\ n \notin Internals}
    /\ reachableResourceNames(g) = {n \in ResourceNames(g) : ~g[n].unreach}

\* The graph holds the internal services, a mounted remote whose resource is
\* unreachable, a local resource that is built and one that is not.
C18_Witness ==
    /\ g[WebName].cur # 0 /\ g[RemoteName].cur # 0
    /\ g[ForeignName].cur # 0 /\ g[ForeignName].unreach
    /\ \E n \in Locals : g[n].present /\ g[n].cur = 0
    /\ \E n \in Locals : g[n].present /\ g[n].cur # 0
    /\ ResourceNames(g) # reachableResourceNames(g)

\* What a refresh does when the peer answers nil.
C19_NilRefresh ==
    RefreshRemotes("nil") =>
        LET desc == {c \in SubGraphFrom(edges, RemoteName) \ {RemoteName} : g[c].present}
        IN  /\ edges' = edges /\ closes' = closes
            /\ \A n \in Names :
                   g'[n] = IF n \in desc THEN [g[n] EXCEPT !.unreach = TRUE] ELSE g[n]
            /\ ResourceNames(g') = ResourceNames(g)
            /\ reachableResourceNames(g') \cap desc = {}
            /\ ~UpdateRemoteResourceNames(g, edges, closes, "nil", FALSE).changed

\* C19: a refresh that finds the remote disconnected marks every descendant
\* of the remote node unreachable and changes nothing else: no node is added,
\* removed, closed or swapped, no needs-reconfigure bit changes, the names
\* stay in ResourceNames() and leave reachableResourceNames(), and the
\* refresh reports no change.
C19_DisconnectFrame == [][C19_NilRefresh]_vars

\* The remote's resource and the local resource depending on it are
\* unreachable and still hold their objects.
C19_Witness ==
    /\ g[RemoteName].cur # 0
    /\ g[ForeignName].cur # 0 /\ g[ForeignName].unreach
    /\ g["b"].cur # 0 /\ g["b"].unreach
    /\ ForeignName \in ResourceNames(g) \ reachableResourceNames(g)

\* The graph after the peer of the remote advertised its resource.
C20_Mounted ==
    /\ g'[ForeignName].present
    /\ g'[ForeignName].cur # 0 /\ closes'[g'[ForeignName].cur] = 0
    /\ g'[ForeignName].curModel = unknownModel
    /\ <<ForeignName, RemoteName>> \in edges'
    /\ ~g'[ForeignName].unreach /\ ~g'[RemoteName].unreach

\* C20: after a refresh of a connected remote, by the ticker or by the pass
\* that dialed it, the resource the peer advertises is a node of the graph
\* under the remote's name, holds a client with the model unknown, has the
\* remote node as parent, and both are marked reachable.
C20_AdvertisedMounted ==
    [][/\ RefreshRemotes("x") => C20_Mounted
       /\ (NeedsReconfigure(g[RemoteName]) /\ CompleteConfigStart(TRUE, "x"))
              => C20_Mounted]_vars

\* The refresh has just mounted the resource of a remote an earlier pass had
\* dialed.
C20_Witness ==
    /\ ops = 2 /\ dirty /\ hist = NoPass
    /\ g[RemoteName].cur # 0
    /\ g[ForeignName].cur = Len(closes) /\ g[ForeignName].curModel = unknownModel
    /\ <<ForeignName, RemoteName>> \in edges

\* What a refresh does to a mounted resource the peer no longer advertises.
C21_Dropped ==
    (/\ RefreshRemotes("empty")
     /\ <<ForeignName, RemoteName>> \in edges
     /\ g[ForeignName].present /\ g[ForeignName].cur # 0) =>
        /\ closes'[g[ForeignName].cur] = Closed(closes[g[ForeignName].cur])
        /\ \A c \in ChildrenToUpdate(g, edges, ForeignName) :
               g'[c].needsReconf \/ g'[c].marked
        /\ ~g'[ForeignName].present
        /\ ForeignName \notin ResourceNames(g')
        /\ ResourceByName(g', ForeignName) = NotFound

\* C21: when a refresh of a connected remote no longer advertises a mounted
\* resource, the resource's object is closed, its local descendants need
\* reconfiguration, and its node is removed: it is no longer in the graph, not
\* in ResourceNames(), and a lookup by its name answers NotFound.
C21_UnadvertisedRemoved == [][C21_Dropped]_vars

\* What the periodic refresh does when the peer advertises the resource that
\* is mounted and holds its client.
C22_SteadyRefresh ==
    (/\ RefreshRemotes("x")
     /\ <<ForeignName, RemoteName>> \in edges
     /\ g[ForeignName].present /\ g[ForeignName].cur # 0) =>
        LET desc == {c \in SubGraphFrom(edges, RemoteName) \ {RemoteName} : g[c].present}
            r == UpdateRemoteResourceNames(g, edges, closes, "x", FALSE)
        IN  /\ closes' = closes /\ edges' = edges
            /\ \A n \in Names :
                   g'[n] = IF n \in desc THEN [g[n] EXCEPT !.unreach = FALSE] ELSE g[n]
            /\ (\A n \in desc : ~g[n].unreach) => g' = g
            /\ ~r.changed
            /\ UpdateRemoteResourceNames(r.g, r.edges, r.closes, "x", FALSE) = r

\* C22: a periodic refresh (recreateAllClients false) leaves a mounted foreign
\* node that holds its client as it is: the client is neither closed nor
\* replaced and no descendant is marked for update; the advertised resources
\* being the mounted ones, nodes, edges and objects stay the same (reachable
\* nodes wholly so), no change is reported, and a second refresh gives the
\* same result.
C22_SteadyRefreshFrame == [][C22_SteadyRefresh]_vars

\* The refresh has run over the mounted resource and the local resource built
\* on it; both hold their objects and nothing awaits reconfiguration.
C22_Witness ==
    /\ ops = 2 /\ dirty /\ hist = NoPass
    /\ Present(g) = {RemoteName, ForeignName, "b"}
    /\ <<"b", ForeignName>> \in edges
    /\ \A n \in Present(g) : /\ g[n].cur # 0 /\ closes[g[n].cur] = 0
                             /\ ~g[n].needsReconf /\ ~g[n].marked /\ ~g[n].unreach

\* C23: when a node that holds its object and awaits nothing gets a new config
\* whose model differs from the model of its object, or whose Reconfigure
\* answers must-rebuild, then (the config being valid, its dependencies at
\* hand and the constructor answering without error) the old object is closed
\* exactly once, it is closed before the constructor runs, the constructor is
\* called exactly once, with the new config, and after the pass a lookup of
\* the name hands out the new object, which is not the old one.
C23_RebuildClosesOnce ==
    /\ \A t \in tasks :
           (/\ t.wpc = "build" /\ idem.before # <<>>
            /\ idem.before[t.node].present /\ idem.before[t.node].cur # 0
            /\ ResourceErr(idem.before[t.node]) = NoErr
            /\ ~idem.before[t.node].needsReconf) =>
               /\ closes[idem.before[t.node].cur] = 1
               /\ g[t.node].cur = 0
               /\ t.model = g[t.node].cfgModel
               /\ t.node \in Modified(idem.diff[1]) => t.model = idem.diff[1][t.node].model
    /\ (hist.phase = "ended" /\ tasks = {} /\ idem.before # <<>>) =>
           \A n \in Modified(idem.diff[1]) :
               LET old == idem.before[n]
                   r == ResourceByName(g, n)
               IN  (/\ old.present /\ ResourceErr(old) = NoErr /\ ~old.needsReconf
                    /\ (idem.diff[1][n].model # old.curModel \/ n \in idem.must)) =>
                       /\ closes[old.cur] <= 1 /\ idem.ctor[n] <= 1
                       /\ idem.ctor[n] = 1 => closes[old.cur] = 1
                       /\ g[n].lastErr = NoErr =>
                              /\ closes[old.cur] = 1
                              /\ idem.ctor[n] = 1
                              /\ r.kind = "ok" /\ r.obj # old.cur /\ closes[r.obj] = 0
                              /\ g[n].curModel = idem.diff[1][n].model

\* A resource another one depends on was rebuilt for a new model: the pass is
\* over, its old object is closed and the lookup hands out the new one.
C23_Witness ==
    /\ hist.phase = "ended" /\ tasks = {} /\ idem.before # <<>>
    /\ <<"b", "a">> \in edges
    /\ idem.before["a"].cur # 0 /\ idem.before["a"].curModel # g["a"].curModel
    /\ closes[idem.before["a"].cur] = 1
    /\ idem.ctor["a"] = 1 /\ ResourceByName(g, "a").kind = "ok"
    /\ g["a"].cur # idem.before["a"].cur

\* What the step that ends a constructor call, and the step that ends a
\* Reconfigure call, do to the dependents.
C24_WorkerMarks ==
    \A t \in tasks :
        LET desc == {c \in SubGraphFrom(edges, t.node) \ {t.node} : g[c].present}
        IN  /\ (WorkerBuilt(t, "ok") /\ ~t.detached) =>
                   /\ \A c \in desc : g'[c].needsReconf \/ g'[c].marked
                   /\ t.wrap = "wait" =>
                          /\ lvl' = lvl /\ t.lvl = lvl /\ hist'.started = hist.started
                          /\ \A u \in tasks' : u.wrap = "wait" => u.lvl <= t.lvl
            /\ WorkerReconfigured(t, "ok") =>
                   \A c \in Names \ {t.node} : g'[c] = g[c]

\* C24: when a worker of a level has built or rebuilt its resource, every
\* descendant of the resource (that is not pending removal) needs
\* reconfiguration as of that step, and while the closure of the resource is
\* one the level waits for, no resource of a later level has been started; a
\* successful Reconfigure in place leaves every other node as it is.
C24_DescendantsMarkedBeforeNextLevel == [][C24_WorkerMarks]_vars

\* Resource "a" of the first level has just been rebuilt; "b", which depends
\* on it and holds its object, needs reconfiguration and the second level has
\* not been started.
C24_Witness ==
    /\ hist.phase = "running" /\ lvl = 1 /\ Len(levels) = 2
    /\ hist.started = {"a"}
    /\ <<"b", "a">> \in edges
    /\ Len(closes) >= 3 /\ g["a"].cur = Len(closes) /\ closes[1] = 1
    /\ g["b"].cur # 0 /\ closes[g["b"].cur] = 0 /\ g["b"].needsReconf

\* C25: for a resource the module manager provides, the first build calls
\* AddResource once (the config being valid and the call answering without
\* error) and ReconfigureResource not at all; a later change of its config
\* with the same model calls ReconfigureResource once and AddResource not at
\* all, and the node keeps its object; for a resource the module manager does
\* not provide neither is called.
C25_BridgeDelegation ==
    (hist.phase = "ended" /\ tasks = {} /\ idem.before # <<>>) =>
        \A n \in Modified(idem.diff[1]) :
            LET old == idem.before[n]
                first == ~old.present \/ old.cur = 0
                ready == old.present /\ ResourceErr(old) = NoErr /\ ~old.needsReconf
                same == idem.diff[1][n].model = old.curModel
            IN  /\ (n = "b" /\ first) =>
                       /\ idem.add[n] <= 1 /\ idem.reconf[n] = 0
                       /\ g[n].lastErr = NoErr => (idem.add[n] = 1 /\ g[n].cur # 0)
                /\ (n = "b" /\ ready /\ same) =>
                       /\ idem.add[n] = 0 /\ idem.reconf[n] <= 1
                       /\ g[n].lastErr = NoErr =>
                              /\ idem.reconf[n] = 1
                              /\ g[n].cur = old.cur /\ closes[old.cur] = 0
                /\ n # "b" => (idem.add[n] = 0 /\ idem.reconf[n] = 0)

\* The second diff changed the config of the modular resource, keeping its
\* model, and added a resource the module manager does not provide: the
\* first was reconfigured through the module manager and holds the object it
\* held, the second was built by its constructor.
C25_Witness ==
    /\ hist.phase = "ended" /\ tasks = {} /\ idem.before # <<>>
    /\ Modified(idem.diff[1]) = {"a", "b"}
    /\ idem.before["b"].cur # 0 /\ g["b"].cur = idem.before["b"].cur
    /\ g["b"].lastErr = NoErr /\ idem.reconf["b"] = 1 /\ idem.add["b"] = 0
    /\ ~idem.before["a"].present /\ g["a"].cur # 0
    /\ idem.ctor["a"] = 1 /\ idem.add["a"] = 0

\* What removeMarkedAndClose leaves of a modular resource it removes.
C26_Removed ==
    (/\ RemoveMarkedAndClose
     /\ "b" \in ToRemove(g)
     /\ ("b" \in bridge.state \/ bridge.removes["b"] >= 1)) =>
        /\ bridge'.removes["b"] = 1
        /\ "b" \notin bridge'.state
        /\ ResourceByName(g', "b") = NotFound

MissingDeps(gr, n) == {d \in gr[n].deps : ~gr[d].present}

\* A node with a missing dependency during and after a pass.
C27_NotBuilt ==
    /\ \A t \in tasks : t.wpc \in {"build", "reconf"} => MissingDeps(g, t.node) = {}
    /\ (hist.phase = "ended" /\ tasks = {}) =>
           /\ hist.started = AllLevels
           /\ \A n \in Present(g) :
                  (~g[n].marked /\ MissingDeps(g, n) # {}) =>
                      /\ g[n].needsReconf /\ g[n].lastErr # NoErr
                      /\ ResourceByName(g, n).kind = "NotAvailable"
                      /\ ResourceByName(g, n).cause = g[n].lastErr
                      /\ ResourceByName(g, n).obj = 0

\* A node whose dependencies are all in the graph when a pass starts, and
\* hand out their objects when its worker starts.
C27_BuiltLater ==
    /\ CompleteConfigStart(TRUE, "empty") =>
           \A n \in Names :
               (/\ NeedsReconfigure(g[n]) /\ MissingDeps(g, n) = {}
                /\ ResolveErr(g', edges', n) = NoErr) =>
                   \A d \in g[n].deps :
                       /\ <<n, d>> \in edges'
                       /\ \A i \in LevelsOf(n)', j \in LevelsOf(d)' : i > j
    /\ \A t \in tasks :
           /\ (/\ WorkerBegin(t, "ok")
               /\ NeedsReconfigure(g[t.node]) /\ IsUninitialized(g[t.node])
               /\ g[t.node].deps # {}
               /\ \A d \in g[t.node].deps :
                      <<t.node, d>> \in edges /\ ResourceErr(g[d]) = NoErr) =>
                  \E u \in tasks' : u.node = t.node /\ u.wpc = "build"
           /\ (WorkerBuilt(t, "ok") /\ g[t.node].deps # {}) =>
                  /\ ResourceByName(g', t.node).kind = "ok"
                  /\ ResourceByName(g', t.node).obj = NewObj

\* C27: a node with a declared dependency that is not in the graph is not
\* built: no constructor or Reconfigure is called for it, after the pass it
\* still awaits configuration and has an error, which a lookup answers as
\* NotAvailable, never with an object; the pass still started every node; in
\* a pass that finds the dependency in the graph the node is resolved, placed
\* after it, built once the dependency hands out its object, and available.
C27_MissingDependency == []C27_NotBuilt /\ [][C27_BuiltLater]_vars

\* The pass is over: "b", whose dependency "a" is not in the graph, has an
\* error and no object, while the shell service of the same diff is built.
C27_Witness ==
    /\ hist.phase = "ended" /\ tasks = {} /\ ops = 1
    /\ g["b"].present /\ MissingDeps(g, "b") = {"a"}
    /\ g["b"].cur = 0 /\ g["b"].lastErr # NoErr
    /\ g[ShellName].cur # 0 /\ ResourceByName(g, ShellName).kind = "ok"

\* The end of a reconfiguration that removed resources from the config: the
\* nodes marked only because they depend on a removed resource, and the
\* parents of the removed resources.
C28_AfterRemoval ==
    (RemoveMarkedAndClose /\ alreadyClosed # {}) =>
        /\ \A c \in ToRemove(g) \ alreadyClosed :
               /\ g'[c].present
               /\ ResourceByName(g', c).kind = "NotAvailable"
        /\ \A n \in alreadyClosed : \A p \in Parents(edges, n) \ ToRemove(g) :
               g'[p] = g[p] /\ ResourceErr(g'[p]) = NoErr

\* C28: when a resource is removed from the config and its dependents are
\* not, then after the reconfiguration each dependent is still a node of the
\* graph and a lookup of it answers NotAvailable (not NotFound), and the
\* parents of the removed resource hold their objects as before.
C28_DependentsKept == [][C28_AfterRemoval]_vars

\* The nodes of the graph that are configured to depend on each other.
Mutual(gr) ==
    {n \in Present(gr) : /\ ~gr[n].marked
                         /\ \E d \in gr[n].deps :
                                gr[d].present /\ ~gr[d].marked /\ n \in gr[d].deps}

\* What a pass does with nodes that depend on each other.
C29_NoneBuilt ==
    /\ \A fs \in BOOLEAN, out \in RemoteOutcomes :
           (CompleteConfigStart(fs, out) /\ Mutual(g) # {}) =>
               /\ \E n \in Mutual(g) : g'[n].lastErr = "cycle"
               /\ \A n \in Mutual(g) : \E d \in g[n].deps \cap Mutual(g) :
                      n \in g[d].deps /\ ~(<<n, d>> \in edges' /\ <<d, n>> \in edges')
    /\ \A u \in tasks' \ tasks :
           u.wpc \in {"build", "reconf"} => u.node \notin Mutual(g)

MaxChain == 3

\* resource.Name as (api, name, remote chain): the chain lists the remote
\* machines a resource is reached through, the nearest first, and is empty
\* for a local resource.
\* A prefixing that puts the remote at the far end of the chain.
AppendRemote(n, r) == [n EXCEPT !.remote = Append(@, r)]

\* Name.PrependRemote(remoteName): the same resource seen through one more
\* remote.
PrependRemote(n, r) == [n EXCEPT !.remote = <<r>> \o @]

\* Name.PopRemote(): the name without the nearest remote; a local name is
\* returned as it is.
PopRemote(n) == IF n.remote = <<>> THEN n ELSE [n EXCEPT !.remote = Tail(@)]

\* A peer advertises one of its own resources.
InitNames ==
    /\ g = [n \in Names |-> AbsentNode]
    /\ edges = {}
    /\ closes = <<>>
    /\ ops = 0
    /\ dirty = FALSE
    /\ faults = 0
    /\ alreadyClosed = {}
    /\ pc = "idle"
    /\ levels = <<>>
    /\ lvl = 0
    /\ todo = {}
    /\ forceSync = FALSE
    /\ cancelled = FALSE
    /\ tasks = {}
    /\ hist = NoPass
    /\ untrustedEnv = FALSE
    /\ \E api \in {"arm", "camera"}, nm \in {ShortName, "y"} :
           ret = [op |-> "advertised", errs |-> {}, q |-> "",
                  val |-> [api |-> api, name |-> nm, remote |-> <<>>]]
    /\ bridge = NoBridge
    /\ idem = NoIdem

\* A mount that puts the remote's name at the far end of the chain.
MountAppended(r) ==
    /\ Len(ret.val.remote) < MaxChain
    /\ ret' = [op |-> "mounted", errs |-> {}, q |-> r, val |-> AppendRemote(ret.val, r)]
    /\ UNCHANGED <<g, edges, closes, ops, dirty, faults, alreadyClosed, pc, levels, lvl,
                   todo, forceSync, cancelled, tasks, hist, untrustedEnv, bridge, idem>>

\* updateRemoteResourceNames mounts the name a remote advertises: the remote
\* node's name is prepended (the advertised name may itself come from a
\* remote of the peer).
MountName(r) ==
    /\ Len(ret.val.remote) < MaxChain
    /\ ret' = [op |-> "mounted", errs |-> {}, q |-> r, val |-> PrependRemote(ret.val, r)]
    /\ UNCHANGED <<g, edges, closes, ops, dirty, faults, alreadyClosed, pc, levels, lvl,
                   todo, forceSync, cancelled, tasks, hist, untrustedEnv, bridge, idem>>

\* getRemoteResourceMetadata keys a remote's resource status by the name the
\* resource has on this machine.
StatusName(r) ==
    /\ Len(ret.val.remote) < MaxChain
    /\ ret' = [op |-> "status", errs |-> {}, q |-> r, val |-> PrependRemote(ret.val, r)]
    /\ UNCHANGED <<g, edges, closes, ops, dirty, faults, alreadyClosed, pc, levels, lvl,
                   todo, forceSync, cancelled, tasks, hist, untrustedEnv, bridge, idem>>

\* A foreign name is stripped of its nearest remote, which is kept in q.
StripName ==
    /\ ret.val.remote # <<>>
    /\ ret' = [op |-> "stripped", errs |-> {}, q |-> Head(ret.val.remote),
               val |-> PopRemote(ret.val)]
    /\ UNCHANGED <<g, edges, closes, ops, dirty, faults, alreadyClosed, pc, levels, lvl,
                   todo, forceSync, cancelled, tasks, hist, untrustedEnv, bridge, idem>>

NextNames ==
    \/ \E r \in {RemoteName, "s"} : MountName(r)
    \/ \E r \in {RemoteName, "s"} : StatusName(r)
    \/ StripName

NameSpec == InitNames /\ [][NextNames]_vars

\* What prefixing and stripping do to a name.
C30_Prefixed ==
    /\ \A r \in {RemoteName, "s"} :
           (MountName(r) \/ StatusName(r)) =>
               /\ ret'.val.remote = <<r>> \o ret.val.remote
               /\ ret'.val.api = ret.val.api /\ ret'.val.name = ret.val.name
               /\ PopRemote(ret'.val) = ret.val
    /\ StripName =>
           /\ PrependRemote(ret'.val, ret'.q) = ret.val
           /\ Len(ret'.val.remote) = Len(ret.val.remote) - 1

C40_NoClosedObjectHeld ==
    \A n \in Names : (g[n].present /\ g[n].cur # 0) => closes[g[n].cur] = 0

\* C38: at no time are two (re)configuration tasks of the same node running,
\* also across passes: a worker that timed out or was abandoned on
\* cancellation never overlaps with a worker a later pass starts for its node
\* (no two workers of one node are inside a constructor or Reconfigure call).
C38_OneTaskPerNode ==
    \A t \in tasks, u \in tasks :
        (t # u /\ t.node = u.node) =>
            ~(t.wpc \in {"build", "reconf"} /\ u.wpc \in {"build", "reconf"})

\* What the step that ends a failed Reconfigure call does.
C39_KeepsObject ==
    \A t \in tasks :
        (WorkerReconfigured(t, "err") /\ ~t.detached) =>
            LET n == t.node
                desc == {c \in SubGraphFrom(edges, n) \ {n} :
                             g[c].present /\ ~ContainsRemoteNames(c)}
            IN  /\ closes' = closes
                /\ g'[n].cur = g[n].cur /\ g'[n].curModel = g[n].curModel
                /\ g'[n].lastErr = "reconfigure"
                /\ g'[n].needsReconf = g[n].needsReconf
                /\ t.wrap = "wait" => (g'[n].cur = t.res /\ g'[n].needsReconf)
                /\ \A c \in desc : g'[c].needsReconf \/ g'[c].marked
                /\ \A u \in tasks' : u.node = n /\ u.wpc = "build" => u \in tasks

\* C39: when the Reconfigure call of a node that holds its object (or the
\* module manager's ReconfigureResource) fails with an error other than
\* must-rebuild, the object is neither closed nor unset and no constructor is
\* called: the node keeps the same object, has the error as its last error,
\* still needs reconfiguration, and its local descendants need
\* reconfiguration.
C39_ReconfigureFailureKeepsObject == [][C39_KeepsObject]_vars

\* "a" holds the object it had before its Reconfigure failed, with the error,
\* and "b", which depends on it and was built, needs reconfiguration again.
C39_Witness ==
    /\ hist.phase = "running" /\ tasks = {}
    /\ <<"b", "a">> \in edges
    /\ g["a"].cur # 0 /\ closes[g["a"].cur] = 0
    /\ g["a"].lastErr = "reconfigure" /\ g["a"].needsReconf
    /\ g["b"].cur # 0 /\ g["b"].needsReconf /\ g["b"].lastErr = NoErr

\* ------------------------------------------- markRemoved with modules
\* A removal that treats the resources of a removed module like the listed
\* ones: their dependents are marked and named too.
MarkRemovedAlike(S, R) ==
    LET listed == {n \in S \cup R : g[n].present /\ ~ShellDisabled(n)}
        marked == MarkedByRemoval(g, edges, listed)
        g1 == [n \in Names |-> IF n \in marked /\ g[n].present
                               THEN MarkNode(g[n]) ELSE g[n]]
    IN  /\ pc = "idle"
        /\ ops < MaxOps
        /\ S \cup R # {}
        /\ g' = NodesClose(g1, listed)
        /\ closes' = CloseObjs(closes, HeldBy(g1, listed))
        /\ alreadyClosed' = listed
        /\ ret' = [op |-> "markRemoved", errs |-> {}, listed |-> S, marked |-> marked,
                   rebuild |-> R]
        /\ Changed
        /\ PassForgotten
        /\ UNCHANGED <<edges, tasks, untrustedEnv, bridge, idem>>

\* markRemoved(conf) with modules in conf: S are the remotes, components and
\* services of conf, R the names moduleManager.Remove answered for the modules
\* of conf (resourcesToRebuild). The first are marked with their dependents,
\* whose names are returned; the second are marked alone. The host closes the
\* resources returned for closing right away.
MarkRemovedConf(S, R) ==
    LET listed == {n \in S : g[n].present /\ ~ShellDisabled(n)}
        rebuilt == {n \in R : g[n].present /\ ~ShellDisabled(n)}
        names == MarkedByRemoval(g, edges, listed)
        marked == names \cup rebuilt
        toClose == listed \cup rebuilt
        g1 == [n \in Names |-> IF n \in marked /\ g[n].present
                               THEN MarkNode(g[n]) ELSE g[n]]
    IN  /\ pc = "idle"
        /\ ops < MaxOps
        /\ S \cup R # {}
        /\ g' = NodesClose(g1, toClose)
        /\ closes' = CloseObjs(closes, HeldBy(g1, toClose))
        /\ alreadyClosed' = toClose
        /\ ret' = [op |-> "markRemoved", errs |-> {}, listed |-> S, marked |-> names,
                   rebuild |-> R]
        /\ Changed
        /\ PassForgotten
        /\ UNCHANGED <<edges, tasks, untrustedEnv, bridge, idem>>

\* Local resources, with removals of listed resources and of modules.
NextRemoval ==
    \/ Next
    \/ \E S \in SUBSET (Present(g) \cap Configurable),
          R \in SUBSET {n \in Locals : IsModular(n)} : MarkRemovedConf(S, R)

RemovalSpec == Init /\ [][NextRemoval]_vars

\* What a markRemoved step marks and returns.
C37_Marks ==
    \A S \in SUBSET Configurable, R \in SUBSET Locals :
        MarkRemovedConf(S, R) =>
            LET listed == {n \in S : g[n].present}
                below == UNION {SubGraphFrom(edges, n) : n \in listed}
            IN  /\ \A n \in below : g[n].present => g'[n].marked
                /\ \A n \in R : g[n].present => g'[n].marked
                /\ \A n \in Names \ (below \cup R) : g'[n].marked = g[n].marked
                /\ ret'.marked = below
                /\ ret'.rebuild = R

\* C37: markRemoved marks for removal every resource listed in the removed
\* config together with the whole subgraph of its dependents, while a resource
\* that is affected only because its module was removed is marked alone,
\* without its dependents; the marked names it returns are exactly the names
\* of the subgraphs of the listed resources.
C37_MarkRemovedScope == [][C37_Marks]_vars

\* The module of "b" was removed from the config: "b" is marked for removal
\* and "a", which depends on it, is not, and no name is returned as marked.
C37_Witness ==
    /\ ret.op = "markRemoved" /\ ret.rebuild = {"b"} /\ ret.listed = {}
    /\ <<"a", "b">> \in edges
    /\ g["b"].marked /\ g["a"].present /\ ~g["a"].marked
    /\ ret.marked = {}

\* C35: whenever a step closes the object held by a node of the graph
\* (rebuild, dependency-lookup failure, removal), the node no longer holds
\* that object after the step, whatever Close answered.
C35_ClosedObjectCleared ==
    [][\A n \in Names :
           (/\ g[n].present /\ g[n].cur # 0
            /\ closes'[g[n].cur] # closes[g[n].cur]) => g'[n].cur # g[n].cur]_vars

\* --------------------------------------------------------------- revisions
\* updateRevision(name, revision): gNode.UpdateRevision makes the revision
\* both the node's revision and its pending one, whatever the node's state.
updateRevision(n, rv) ==
    /\ g[n].present
    /\ idem' = [idem EXCEPT !.rev[n] = rv, !.pending[n] = rv]
    /\ UNCHANGED <<g, edges, closes, ops, dirty, faults, alreadyClosed, pc, levels, lvl,
                   todo, forceSync, cancelled, tasks, hist, untrustedEnv, ret, bridge>>

\* Diffs that carry a revision; after updateResources the host records the
\* diff's revision on the resources the diff left as they were.
NextRevision ==
    \/ NextIdem
    \/ \E n \in Locals :
           /\ pc = "idle" /\ dirty
           /\ idem.diff # <<>>
           /\ n \notin ToMark(idem.diff[1])
           /\ idem.rev[n] # idem.diff[2]
           /\ updateRevision(n, idem.diff[2])

RevisionSpec == Init /\ [][NextRevision]_vars

\* C36: a node's revision changes only in a step in which SwapResource puts
\* an object into the node after its constructor or Reconfigure succeeded; a
\* node whose build failed or timed out keeps the revision it was last
\* successfully brought to.
C36_RevisionCommittedOnSwap ==
    [][\A n \in Names : idem'.rev[n] # idem.rev[n] => Swapped(n)]_vars

\* ------------------------------------------- resources of a capped API
\* resource.LookupGenericAPIRegistration(resName.API).MaxInstance: the local
\* resources are of an API that allows one instance.
MaxInstance(n) == IF n \in Locals THEN 1 ELSE 0

\* syncRes (lines 804-814)
SyncRes(n) == forceSync \/ MaxInstance(n) # 0

\* The level loop name by name (lines 660-827): a synchronous resource is
\* processed inline and the loop goes on when its closure has returned, any
\* other is handed to the level's errgroup.
LaunchEach ==
    /\ pc = "launch"
    /\ IF cancelled
       THEN PassReturns /\ UNCHANGED <<tasks, todo>>
       ELSE IF todo = {}
       THEN pc' = "wait" /\ UNCHANGED <<tasks, todo, hist>>
       ELSE LET n == Head(SortNames(todo))
            IN  /\ tasks' = tasks \cup {[NewTask(n) EXCEPT !.sync = SyncRes(n)]}
                /\ todo' = todo \ {n}
                /\ hist' = [hist EXCEPT !.started = @ \cup {n}]
                /\ pc' = IF SyncRes(n) THEN "syncwait" ELSE "launch"
    /\ UNCHANGED <<g, edges, closes, ops, dirty, faults, alreadyClosed, levels, lvl,
                   forceSync, cancelled>>

\* Passes without forceSync over local resources of the capped API, with
\* timeouts and cancellation.
NextCap ==
    \/ (\E d \in LocalDiffs : UpdateResources(d)) /\ UNCHANGED aux
    \/ (\E S \in SUBSET (Present(g) \cap Configurable) : MarkRemoved(S)) /\ UNCHANGED aux
    \/ RemoveMarkedAndClose /\ UNCHANGED aux
    \/ (\E out \in RemoteOutcomes : CompleteConfigStart(FALSE, out)) /\ UNCHANGED aux
    \/ LaunchEach /\ UNCHANGED aux
    \/ LevelWait /\ UNCHANGED aux
    \/ Cancel /\ UNCHANGED aux
    \/ (\E t \in tasks, how \in {"timeout", "ctx"} : ClosureReturn(t, how)) /\ UNCHANGED aux
    \/ (\E t \in tasks, v \in {"ok", "validation", "modvalidation"} : WorkerBegin(t, v)) /\ UNCHANGED aux
    \/ (\E t \in tasks, out \in {"ok", "err", "rebuild"} : WorkerReconfigured(t, out)) /\ UNCHANGED aux
    \/ (\E t \in tasks, out \in {"ok", "err"} : WorkerBuilt(t, out)) /\ UNCHANGED aux

CapSpec == Init /\ [][NextCap]_vars

\* C34: a resource of an API with a non-zero instance cap (and every resource
\* when forceSync is set) is processed inline, so two resources of a capped
\* API are never inside their constructors at the same time.
C34_CappedBuiltOneAtATime ==
    \A t \in tasks, u \in tasks :
        (/\ t.node # u.node
         /\ MaxInstance(t.node) # 0 /\ MaxInstance(u.node) # 0) =>
            ~(t.wpc = "build" /\ u.wpc = "build")

\* The inline part of the claim: while the closure of a synchronous resource
\* is waited for, no other closure of the pass is.
C34_InlineOneAtATime ==
    \A t \in tasks, u \in tasks :
        (t # u /\ t.sync /\ t.wrap = "wait") => u.wrap = "ret"

\* ------------------------------------------------ the errgroups' limits
\* levelErrG.SetLimit(10) and remoteErrGroup.SetLimit(5)
LevelLimit == 10
RemoteLimit == 5

\* The most remotes awaiting a dial and the most names of a level.
MaxRemotes == 6
MaxLevel == 12

\* completeConfig over m remotes that need a dial and a level of k names that
\* are processed through the level's errgroup. The counts are kept in ret:
\* remotes and names not yet handed to their errgroup, dial functions and
\* processResource closures the errgroups are running, and workers whose
\* closure returned on the resource's timeout while they go on.
StartLimits(m, k) ==
    /\ ret.op = "none"
    /\ ret' = [op |-> "limits", errs |-> {}, remotes |-> m, dialing |-> 0,
               names |-> k, waiting |-> 0, late |-> 0]
    /\ UNCHANGED <<g, edges, closes, ops, dirty, faults, alreadyClosed, pc, levels, lvl,
                   todo, forceSync, cancelled, tasks, hist, untrustedEnv, bridge, idem>>

\* remoteErrGroup.Go(...): blocks while five of its functions are running.
GoRemote ==
    /\ ret.op = "limits"
    /\ ret.remotes > 0
    /\ ret.dialing < RemoteLimit
    /\ ret' = [ret EXCEPT !.remotes = @ - 1, !.dialing = @ + 1]
    /\ UNCHANGED <<g, edges, closes, ops, dirty, faults, alreadyClosed, pc, levels, lvl,
                   todo, forceSync, cancelled, tasks, hist, untrustedEnv, bridge, idem>>

\* processAndCompleteConfigForRemote returns: the dial, made inside it, is over.
RemoteReturns ==
    /\ ret.op = "limits"
    /\ ret.dialing > 0
    /\ ret' = [ret EXCEPT !.dialing = @ - 1]
    /\ UNCHANGED <<g, edges, closes, ops, dirty, faults, alreadyClosed, pc, levels, lvl,
                   todo, forceSync, cancelled, tasks, hist, untrustedEnv, bridge, idem>>

\* levelErrG.Go(processResource), after remoteErrGroup.Wait(): blocks while
\* ten closures are running; the closure starts the resource's worker.
GoLevel ==
    /\ ret.op = "limits"
    /\ ret.remotes = 0 /\ ret.dialing = 0
    /\ ret.names > 0
    /\ ret.waiting < LevelLimit
    /\ ret' = [ret EXCEPT !.names = @ - 1, !.waiting = @ + 1]
    /\ UNCHANGED <<g, edges, closes, ops, dirty, faults, alreadyClosed, pc, levels, lvl,
                   todo, forceSync, cancelled, tasks, hist, untrustedEnv, bridge, idem>>

\* The select of a closure (lines 788-801): its worker signalled, or the
\* resource's timeout elapsed and the closure returns while the worker goes on.
ClosureSelect(how) ==
    /\ ret.op = "limits"
    /\ ret.waiting > 0
    /\ how \in {"done", "timeout"}
    /\ ret' = [ret EXCEPT !.waiting = @ - 1,
                          !.late = IF how = "timeout" THEN @ + 1 ELSE @]
    /\ UNCHANGED <<g, edges, closes, ops, dirty, faults, alreadyClosed, pc, levels, lvl,
                   todo, forceSync, cancelled, tasks, hist, untrustedEnv, bridge, idem>>

\* A worker whose closure returned on the timeout is through.
LateWorkerDone ==
    /\ ret.op = "limits"
    /\ ret.late > 0
    /\ ret' = [ret EXCEPT !.late = @ - 1]
    /\ UNCHANGED <<g, edges, closes, ops, dirty, faults, alreadyClosed, pc, levels, lvl,
                   todo, forceSync, cancelled, tasks, hist, untrustedEnv, bridge, idem>>

NextLimit ==
    \/ \E m \in 0..MaxRemotes, k \in 1..MaxLevel : StartLimits(m, k)
    \/ GoRemote
    \/ RemoteReturns
    \/ GoLevel
    \/ \E how \in {"done", "timeout"} : ClosureSelect(how)
    \/ LateWorkerDone

LimitSpec == Init /\ [][NextLimit]_vars

\* C33: at any moment at most ten (re)configuration tasks of a level are in
\* flight, the tasks whose timeout has fired while their build is still running
\* included, and at most five remote dials are in flight.
C33_InFlightBounded ==
    ret.op = "limits" =>
        /\ ret.waiting + ret.late <= LevelLimit
        /\ ret.dialing <= RemoteLimit

\* What the errgroups do bound: the closures that are waited for, and the dials.
C33_SlotsBounded ==
    ret.op = "limits" => (ret.waiting <= LevelLimit /\ ret.dialing <= RemoteLimit)

\* ------------------------------------------- weak and optional dependents
\* A pass that never brings the weak and optional dependents up to date.
WeakUpdateNever(stale) == FALSE

\* A pass that brings them up to date at every level.
WeakUpdateAlways(stale) == TRUE

\* lr.lastWeakAndOptionalDependentsRound.Load() < CurrLogicalClockValue():
\* stale says that the graph was changed after the last round.
WeakUpdateDue(stale) == stale

\* What a step adds to the bookkeeping of the rounds, kept in ret: whether the
\* graph was changed after the last round (the logical clock is ahead of
\* lastWeakAndOptionalDependentsRound), the rounds of the running pass, whether
\* this step ran one, and the level whose first loop (lines 660-677) is done.
\* The clock advances when nodes or edges are added or removed, a config is
\* set, or an object is put into or taken out of a node. The first loop of a
\* level runs in the step that enters the level: for each name it leaves when
\* the context is done, skips what needs no reconfiguration, and runs
\* updateWeakAndOptionalDependents when the round is behind the clock.
WeakObserves ==
    LET w == IF ret.op = "weak" THEN ret
             ELSE [op |-> "weak", errs |-> {}, stale |-> FALSE, runs |-> 0,
                   ran |-> FALSE, at |-> 0]
        mutated == \/ edges' # edges
                   \/ \E n \in Names : \/ g'[n].present # g[n].present
                                       \/ g'[n].cur # g[n].cur
                                       \/ g'[n].cfgModel # g[n].cfgModel
                                       \/ g'[n].deps # g[n].deps
                                       \/ g'[n].marked # g[n].marked
        enters == pc \in {"idle", "wait"} /\ pc' = "launch"
        needy == \E n \in todo' \cap Locals : g'[n].present /\ NeedsReconfigure(g'[n])
        stale == w.stale \/ mutated
        run == enters /\ ~cancelled' /\ needy /\ WeakUpdateDue(stale)
        before == IF pc = "idle" THEN 0 ELSE w.runs
    IN  /\ ret' = [op |-> "weak", errs |-> {},
                   stale |-> stale /\ ~run,
                   runs |-> IF run THEN before + 1 ELSE before,
                   ran |-> run,
                   at |-> IF enters THEN lvl' ELSE IF pc' = "idle" THEN 0 ELSE w.at]
        /\ UNCHANGED <<untrustedEnv, bridge, idem>>

\* The level-parallel pass over local resources, with timeouts and
\* cancellation, and the rounds of updateWeakAndOptionalDependents.
NextWeak ==
    \/ (\E d \in LocalDiffs : UpdateResources(d)) /\ WeakObserves
    \/ (\E S \in SUBSET (Present(g) \cap Configurable) : MarkRemoved(S)) /\ WeakObserves
    \/ RemoveMarkedAndClose /\ WeakObserves
    \/ (\E fs \in BOOLEAN, out \in RemoteOutcomes : CompleteConfigStart(fs, out)) /\ WeakObserves
    \/ Launch /\ WeakObserves
    \/ LevelWait /\ WeakObserves
    \/ Cancel /\ WeakObserves
    \/ (\E t \in tasks, how \in {"timeout", "ctx"} : ClosureReturn(t, how)) /\ WeakObserves
    \/ (\E t \in tasks, v \in {"ok", "validation", "modvalidation"} : WorkerBegin(t, v)) /\ WeakObserves
    \/ (\E t \in tasks, out \in {"ok", "err", "rebuild"} : WorkerReconfigured(t, out)) /\ WeakObserves
    \/ (\E t \in tasks, out \in {"ok", "err"} : WorkerBuilt(t, out)) /\ WeakObserves

WeakSpec == Init /\ [][NextWeak]_vars

\* What the step that enters a level leaves behind.
C31_LevelEntered ==
    /\ (/\ pc \in {"idle", "wait"} /\ pc' = "launch" /\ ~cancelled'
        /\ \E n \in todo' \cap Locals : g'[n].present /\ NeedsReconfigure(g'[n])) =>
           /\ ~ret'.stale
           /\ ~\E t \in tasks' : t.lvl = lvl' /\ t.wrap = "wait"
    /\ \A t \in tasks' \ tasks :
           (t.wpc = "start" /\ t.wrap = "wait") => (ret.op = "weak" /\ ret.at = t.lvl)

\* C31: when a level is entered that holds a component or service in need of
\* reconfiguration, updateWeakAndOptionalDependents has run, if the graph was
\* changed after its last round, before any task of the level is started: the
\* round is level with the clock, which covers what the levels before it
\* built, and every task is started after the first loop of its level.
C31_WeakUpdateBeforeLevel == [][C31_LevelEntered]_vars

\* The second level of a pass is entered after the first built "b": the
\* round ran again for "a", whose task is not started yet.
C31_Witness ==
    /\ ret.op = "weak" /\ ret.ran /\ ret.at = 2 /\ lvl = 2 /\ pc = "launch"
    /\ todo = {"a"} /\ NeedsReconfigure(g["a"])
    /\ g["b"].cur # 0 /\ ~ret.stale
    /\ ~\E t \in tasks : t.node = "a"

C32_RunsWhenBehind ==
    (ret'.op = "weak" /\ ret'.ran) =>
        /\ pc \in {"idle", "wait"} /\ pc' = "launch"
        /\ \/ ret.op = "weak" /\ ret.stale
           \/ g' # g \/ edges' # edges
        /\ ret'.runs <= lvl'

====
